---- MODULE Spec2Model ----
(***************************************************************************)
(* Model of the signal pipeline of the crypto position manager:            *)
(*   parse (telegram_parser.py) -> execute (trade_service.py,              *)
(*   binance_service.py) -> reconcile (trade_service.py), with the         *)
(*   Telegram intake (telegram_listener.py).                               *)
(*                                                                         *)
(* Every HTTP handler and the listener callback contain no await between   *)
(* their first and last statement, so each is one atomic action.  The      *)
(* exchange is the environment: it fills resting orders, closes positions  *)
(* and answers (or fails to answer) every request.                         *)
(*                                                                         *)
(* Numbers.  Money and prices are integers counted in units of             *)
(* 10^-PriceDigits USD; quantities are integers counted in units of the    *)
(* lot step.  Python floats are modelled by exact arithmetic with          *)
(* round-half-even at the places where the code calls round().             *)
(* An optional value (Python None / SQL NULL) is the empty sequence, a     *)
(* present value v is <<v>>.                                               *)
(***************************************************************************)
EXTENDS Integers, Sequences, FiniteSets, TLC

\* ---------------------------------------------------------------- bounds
MaxSignals   == 1     \* rows of signal_messages the intake models let exist
MaxTrades    == 1     \* rows of trades the models let exist
MaxMessages  == 2     \* rows of market_messages the intake models let exist
MaxDelivered == 5     \* Telegram deliveries explored by the listener model
NumIds       == 5     \* distinct Telegram message identifiers
SeenLimit    == 2     \* scaled stand-in for the 1000 of telegram_listener.py:105
PriceDigits  == 2     \* scaled stand-in for the 8 of telegram_parser.py:185

\* ------------------------------------------------------- program constants
DefaultLeverage       == 20      \* config.py:30
DefaultSlBp           == 500     \* config.py:32, 5.0 percent in 1/100 percent
DefaultTpBp           == 250     \* config.py:33, 2.5 percent in 1/100 percent
FallbackMaxLeverage   == 20      \* binance_service.py:371
USD                   == 10 ^ PriceDigits
DefaultPositionSize   == 50 * USD        \* config.py:31
FallbackMinNotional   == 5 * USD         \* binance_service.py:338
NotionalBuffer        == USD \div 10     \* binance_service.py:825
SeenKeep              == SeenLimit \div 2  \* telegram_listener.py:107 (500 of 1000)

None    == << >>
Some(v) == << v >>
Now     == "utcnow"     \* datetime.utcnow(): some timestamp, its value is not modelled

Symbols == {"BTCUSDT", "ETHUSDT"}
Sides   == {"LONG", "SHORT"}
UserId  == 1            \* routers pass user_id=1 everywhere

\* Exchange metadata (GET /fapi/v1/exchangeInfo, /fapi/v1/leverageBracket):
\* what the exchange reports for the two symbols.
ExchangeMinNotional(symbol) == IF symbol = "BTCUSDT" THEN 5 * USD ELSE 20 * USD
ExchangeMaxLeverage(symbol) == IF symbol = "BTCUSDT" THEN 125 ELSE 10

\* ----------------------------------------------------------- arithmetic
Abs(x) == IF x < 0 THEN 0 - x ELSE x

\* round(n / d) to an integer, ties to even (Python round()); n >= 0, d > 0
RoundHalfEven(n, d) ==
    LET q == n \div d
        r == n % d
    IN  IF 2 * r < d THEN q
        ELSE IF 2 * r > d THEN q + 1
        ELSE IF q % 2 = 0 THEN q ELSE q + 1

\* round(x, digits) of a value counted in units of 10^-PriceDigits
RoundDigits(x, digits) ==
    IF digits >= PriceDigits THEN x
    ELSE LET step == 10 ^ (PriceDigits - digits)
         IN  RoundHalfEven(x, step) * step

\* ------------------------------------------------------------------ state
VARIABLES
    positionAmt,         \* exchange: symbol -> signed position amount (positionAmt)
    exMarginType,        \* exchange: symbol -> margin type in force
    restingOrders,       \* exchange: entry limit orders not yet (fully) filled
    config,              \* trade_management_config row of user 1, None before first access
    marketMessages,      \* market_messages rows (raw texts)
    signals,             \* signal_messages rows
    trades,              \* trades rows
    settingsAutoExecute, \* settings.auto_execute_trades (environment, fixed at start)
    processed_messages,  \* TelegramListener.processed_messages
    delivered,           \* history: the deliveries made to the listener, in order
    running,             \* TelegramListener.running
    last                 \* history: the operation that took the last step and its outcome

vars == << positionAmt, exMarginType, restingOrders, config, marketMessages,
           signals, trades, settingsAutoExecute, processed_messages, delivered, running,
           last >>

exchangeVars == << positionAmt, exMarginType, restingOrders >>
dbVars       == << config, marketMessages, signals, trades >>
listenerVars == << processed_messages, delivered, running >>

\* --------------------------------------------------- exchange gateway: requests
\* One HTTP request as _make_request sends it.
Request(method, endpoint, symbol, side, type, quantity, price, reduceOnly, value) ==
    [method |-> method, endpoint |-> endpoint, symbol |-> symbol, side |-> side,
     type |-> type, quantity |-> quantity, price |-> price, reduceOnly |-> reduceOnly,
     value |-> value]

Get(endpoint, symbol) == Request("GET", endpoint, symbol, "", "", 0, 0, FALSE, "")

OrderEndpoints == {"/fapi/v1/order", "/fapi/v1/algoOrder"}
IsOrder(r)     == r.method = "POST" /\ r.endpoint \in OrderEndpoints
IsMutation(r)  == r.method \in {"POST", "DELETE"}

\* OrderResult dataclass
OrderResult(success, order_id, symbol, side, quantity, price, status, message) ==
    [success |-> success, order_id |-> order_id, symbol |-> symbol, side |-> side,
     quantity |-> quantity, price |-> price, status |-> status, message |-> message]

OrderFailure(message) == OrderResult(FALSE, None, None, None, None, None, None, Some(message))

\* PositionInfo dataclass (the fields the pipeline reads)
PositionInfo(symbol, amt, marginType) ==
    [symbol |-> symbol, side |-> IF amt > 0 THEN "LONG" ELSE "SHORT",
     quantity |-> Abs(amt), margin_type |-> marginType]

\* The non-zero positions of the answer; a failed request makes
\* _make_request return an error dict, iterating it raises, and the except
\* branch returns the empty list.
get_positions(amt, marginType, ok) ==
    IF ~ok THEN {}
    ELSE { PositionInfo(s, amt[s], marginType[s]) : s \in { x \in Symbols : amt[x] # 0 } }

\* get_position_for_symbol
get_position_for_symbol(amt, marginType, symbol, ok) ==
    LET found == { p \in get_positions(amt, marginType, ok) : p.symbol = symbol }
    IN  IF found = {} THEN None ELSE Some(CHOOSE p \in found : TRUE)

\* get_max_leverage: first bracket's initialLeverage, 20 when the request fails
get_max_leverage(symbol, ok) ==
    IF ok THEN ExchangeMaxLeverage(symbol) ELSE FallbackMaxLeverage

\* set_leverage: the value sent and whether the answer carried "leverage"
set_leverage(symbol, leverage, bracketOk, leverageOk) ==
    LET max_leverage == get_max_leverage(symbol, bracketOk)
        sent == IF leverage > max_leverage THEN max_leverage ELSE leverage
    IN  [ok   |-> leverageOk,
         sent |-> sent,
         reqs |-> << Get("/fapi/v1/leverageBracket", symbol),
                     Request("POST", "/fapi/v1/leverage", symbol, "", "", 0, 0, FALSE,
                             ToString(sent)) >>]

\* What the exchange can answer to POST /fapi/v1/marginType: "OK" when it
\* applies the change, the rejection "-4046" when the margin type is in force
\* already, "BLOCKED" when the symbol has a position or an open order, and for
\* every request a rejection with another code or a transport failure ("OTHER").
MarginAnswers(amt, resting, marginType, symbol, margin_type) ==
    LET free == amt[symbol] = 0 /\ \A i \in 1..Len(resting) : resting[i].symbol # symbol
    IN  {"OTHER"} \cup (IF marginType[symbol] = margin_type THEN {"-4046"}
                        ELSE IF free THEN {"OK"} ELSE {"BLOCKED"})

\* set_margin_type: _make_request never raises on a rejection, so the try
\* block ends with "return True" whatever the exchange answers and the
\* except branch with the codes is never entered.
set_margin_type(marginType, symbol, margin_type, answer) ==
    [ok |-> TRUE,
     marginType |-> IF answer = "OK" THEN [marginType EXCEPT ![symbol] = margin_type]
                    ELSE marginType,
     reqs |-> << Request("POST", "/fapi/v1/marginType", symbol, "", "", 0, 0, FALSE,
                         margin_type) >>]

\* get_min_notional: MIN_NOTIONAL filter, 5.0 when the symbol info is missing
get_min_notional(symbol, infoOk) ==
    IF infoOk THEN ExchangeMinNotional(symbol) ELSE FallbackMinNotional

\* calculate_quantity: None when no price or no symbol info; LOT_SIZE stepSize is
\* "1" for both symbols, so the quantity is rounded to 0 fractional digits.
calculate_quantity(symbol, position_size_usd, leverage, entry_price, current_price, infoOk) ==
    LET price == IF entry_price # 0 THEN entry_price ELSE current_price
    IN  IF price = 0 THEN None
        ELSE IF ~infoOk THEN None
        ELSE Some(RoundHalfEven(position_size_usd * leverage, price))

\* PRICE_FILTER tickSize "0.01" for both symbols; 2 is also the default
PricePrecision(symbol) == 2

ProtectiveMinNotional == 5 * USD    \* binance_service.py:594 and :678

\* The exchange as one value: [amt, marginType, resting]
Exchange(amt, marginType, resting) ==
    [amt |-> amt, marginType |-> marginType, resting |-> resting]

\* Variant that sends a failed request a second time
_make_request_resending(req, ok) == IF ok THEN << req >> ELSE << req, req >>

\* _make_request: the requests a call puts on the wire.  One requests.get /
\* post / delete call; a RequestException becomes the error answer that is
\* returned, and nothing is sent again.
_make_request(req, ok) == << req >>

\* What the exchange can answer to an entry order: an order with one of these
\* statuses (the answer carries an orderId), or a rejection / transport failure.
EntryStatuses == {"FILLED", "NEW", "PARTIALLY_FILLED", "EXPIRED"}
EntryOutcomes == EntryStatuses \cup {"ERROR"}

SignedQty(side, quantity) == IF side = "BUY" THEN quantity ELSE 0 - quantity

\* The exchange's side of an accepted limit order: a fill moves the position,
\* the unfilled rest stays on the book.
ExchangeAcceptLimit(ex, symbol, side, quantity, status) ==
    LET filled == IF status = "FILLED" THEN quantity
                  ELSE IF status = "PARTIALLY_FILLED" THEN (quantity + 1) \div 2
                  ELSE 0
        rest   == IF status \in {"NEW", "PARTIALLY_FILLED"} THEN quantity - filled ELSE 0
    IN  [ex EXCEPT
           !.amt = [@ EXCEPT ![symbol] = @ + SignedQty(side, filled)],
           !.resting = IF rest > 0
                       THEN Append(@, [symbol |-> symbol, side |-> side, quantity |-> rest])
                       ELSE @]

\* place_limit_order: price rounded to the tick precision, one POST /fapi/v1/order;
\* success iff the answer carries an orderId, quantity and status as answered.
place_limit_order(ex, symbol, side, quantity, price, outcome) ==
    LET formatted_price == RoundDigits(price, PricePrecision(symbol))
        req == Request("POST", "/fapi/v1/order", symbol, side, "LIMIT", quantity,
                       formatted_price, FALSE, "GTC")
    IN  IF outcome \in EntryStatuses
        THEN [result |-> OrderResult(TRUE, Some("orderId"), Some(symbol), Some(side),
                                     Some(quantity), Some(formatted_price), Some(outcome),
                                     None),
              ex     |-> ExchangeAcceptLimit(ex, symbol, side, quantity, outcome),
              reqs   |-> _make_request(req, TRUE)]
        ELSE [result |-> OrderFailure("Unknown error"), ex |-> ex,
              reqs   |-> _make_request(req, FALSE)]

\* place_stop_loss / place_take_profit share everything but the order type:
\* trigger price rounded to the tick precision, reduceOnly when the notional is
\* below 5.0, one POST /fapi/v1/algoOrder; success iff the answer carries an algoId.
PlaceConditional(type, symbol, side, trigger_price, quantity, ok) ==
    LET rounded  == RoundDigits(trigger_price, PricePrecision(symbol))
        notional == quantity * rounded
        req == Request("POST", "/fapi/v1/algoOrder", symbol, side, type, quantity, rounded,
                       notional < ProtectiveMinNotional, "MARK_PRICE")
    IN  [result |-> IF ok
                    THEN OrderResult(TRUE, Some("algoId"), Some(symbol), Some(side),
                                     Some(quantity), Some(rounded), Some("NEW"), None)
                    ELSE OrderFailure("Unknown error"),
         reqs   |-> _make_request(req, ok)]

\* "except Exception as e: return OrderResult(success=False, message=str(e))":
\* with no quantity the notional cannot be computed and no request is sent
ConditionalRaises == [result |-> OrderFailure("TypeError"), reqs |-> << >>]

\* quantity is the optional OrderResult.quantity of the entry order
place_stop_loss(symbol, side, stop_price, quantity, ok) ==
    IF quantity = None THEN ConditionalRaises
    ELSE PlaceConditional("STOP_MARKET", symbol, side, stop_price, quantity[1], ok)

\* Variant that gives the take profit up without a request
place_take_profit_abandoned(symbol, side, take_profit_price, quantity, ok) ==
    ConditionalRaises

place_take_profit(symbol, side, take_profit_price, quantity, ok) ==
    IF quantity = None THEN ConditionalRaises
    ELSE PlaceConditional("TAKE_PROFIT_MARKET", symbol, side, take_profit_price,
                          quantity[1], ok)

\* ------------------------------------------------ orchestrator: open_position
\* The results dict of open_position, with the requests it sent and the
\* exchange it leaves behind.
OpenResult(success, entry_order, sl_order, tp_order, message, reqs, ex) ==
    [success |-> success, entry_order |-> entry_order, sl_order |-> sl_order,
     tp_order |-> tp_order, message |-> message, reqs |-> reqs, ex |-> ex]

OpenArgs(symbol, side, position_size_usd, leverage, margin_type, entry_price, stop_loss, take_profit) ==
    [symbol |-> symbol, side |-> side, position_size_usd |-> position_size_usd,
     leverage |-> leverage, margin_type |-> margin_type, entry_price |-> entry_price,
     stop_loss |-> stop_loss, take_profit |-> take_profit]

\* Step 0: "if existing_position and existing_position.quantity > 0"
DuplicatePositionGuard(existing) == existing # None /\ existing[1].quantity > 0

\* Variant of step 0 that also stops when an entry order of the symbol is resting
OpenOrdersGuardOnResting(resting, symbol) ==
    \E i \in 1..Len(resting) : resting[i].symbol = symbol

\* Step 0 asks the exchange for the position only: open_position makes no
\* request for the open orders of the symbol, takes no lock and reads no table
\* before it goes on to the leverage.
OpenOrdersGuard(resting, symbol) == FALSE

\* Variant of step 3.5 that never rejects
BelowMinNotionalNever(quantity, entry_price, base_min_notional) == FALSE

\* Step 3.5: "if entry_notional <= MIN_NOTIONAL"
BelowMinNotional(quantity, entry_price, base_min_notional) ==
    quantity * entry_price <= base_min_notional + NotionalBuffer

\* Variant that gives the protective orders the side of the entry
ProtectiveSideOfEntry(side) == IF side = "LONG" THEN "BUY" ELSE "SELL"

\* Step 5: sl_side = "SELL" if side == "LONG" else "BUY"
ProtectiveSide(side) == IF side = "LONG" THEN "SELL" ELSE "BUY"

\* Variant that goes on to the protective orders after a failed entry
EntryNeverAborts(entry_result) == FALSE

\* Step 4: "if not entry_result.success: ... return results"
EntryAborts(entry_result) == ~entry_result.success

\* Variant that reports a failure when a protective order failed
SuccessNeedsProtective(sl_result, tp_result) == sl_result.success /\ tp_result.success

\* Step 6: results["success"] = True, whatever sl_result and tp_result are
SuccessAfterProtective(sl_result, tp_result) == TRUE

\* Steps 4-6: entry order, then stop loss and take profit with the ordered
\* quantity and the inverted side.
OpenFromEntry(ex, a, reqs, quantity) ==
    UNION { LET entry_side == IF a.side = "LONG" THEN "BUY" ELSE "SELL"
                entry == place_limit_order(ex, a.symbol, entry_side, quantity,
                                           a.entry_price, eo)
                sl_side == ProtectiveSide(a.side)
            IN  IF EntryAborts(entry.result)
                THEN { OpenResult(FALSE, Some(entry.result), None, None,
                                  "Entry order failed", reqs \o entry.reqs, entry.ex) }
                ELSE { LET order_quantity == entry.result.quantity
                           sl == place_stop_loss(a.symbol, sl_side, a.stop_loss,
                                                 order_quantity, slOk)
                           tp == place_take_profit(a.symbol, sl_side, a.take_profit,
                                                   order_quantity, tpOk)
                       IN  OpenResult(SuccessAfterProtective(sl.result, tp.result),
                                      Some(entry.result), Some(sl.result), Some(tp.result),
                                      "Limit order placed successfully with SL/TP",
                                      reqs \o entry.reqs \o sl.reqs \o tp.reqs, entry.ex)
                       : slOk \in BOOLEAN, tpOk \in BOOLEAN }
          : eo \in EntryOutcomes }

\* Steps 2-3.5: margin type (the returned flag is not looked at), quantity,
\* minimum notional.
OpenFromMargin(ex, a, reqs) ==
    UNION { LET mt == set_margin_type(ex.marginType, a.symbol, a.margin_type, answer)
                ex2 == [ex EXCEPT !.marginType = mt.marginType]
                quantity == calculate_quantity(a.symbol, a.position_size_usd, a.leverage,
                                               a.entry_price, 0, infoOk)
                reqs2 == reqs \o mt.reqs
            IN  IF quantity = None \/ quantity = Some(0)
                THEN { OpenResult(FALSE, None, None, None, "Failed to calculate quantity",
                                  reqs2, ex2) }
                ELSE UNION {
                       IF BelowMinNotional(quantity[1], a.entry_price,
                                           get_min_notional(a.symbol, minOk))
                       THEN { OpenResult(FALSE, None, None, None,
                                         "Order rejected: Notional value", reqs2, ex2) }
                       ELSE OpenFromEntry(ex2, a, reqs2, quantity[1])
                       : minOk \in BOOLEAN }
          : infoOk \in BOOLEAN,
            answer \in MarginAnswers(ex.amt, ex.resting, ex.marginType, a.symbol,
                                     a.margin_type) }

\* Step 1: leverage.
OpenFromLeverage(ex, a, reqs) ==
    UNION { LET lev == set_leverage(a.symbol, a.leverage, bracketOk, leverageOk)
            IN  IF ~lev.ok
                THEN { OpenResult(FALSE, None, None, None, "Failed to set leverage",
                                  reqs \o lev.reqs, ex) }
                ELSE OpenFromMargin(ex, a, reqs \o lev.reqs)
          : bracketOk \in BOOLEAN, leverageOk \in BOOLEAN }

\* Step 0 and what follows it, for one answer to the position lookup of the
\* guard (posOk: the request was answered with the positions).
OpenFromGuard(ex, a, posOk) ==
    LET existing == get_position_for_symbol(ex.amt, ex.marginType, a.symbol, posOk)
        reqs == << Get("/fapi/v2/positionRisk", "") >>
    IN  IF DuplicatePositionGuard(existing)
        THEN { OpenResult(FALSE, None, None, None,
                          IF existing[1].margin_type # a.margin_type
                          THEN "Cannot open position: existing position has another margin type"
                          ELSE "Position already exists",
                          reqs, ex) }
        ELSE IF OpenOrdersGuard(ex.resting, a.symbol)
        THEN { OpenResult(FALSE, None, None, None, "Entry order already resting",
                          reqs, ex) }
        ELSE OpenFromLeverage(ex, a, reqs)

\* open_position: every result the call can have on exchange ex, one for each
\* way the exchange can answer the requests the call makes.
open_position(ex, a) == UNION { OpenFromGuard(ex, a, posOk) : posOk \in BOOLEAN }

\* close_position: position lookup, cancel-all, then one reduce-only market
\* order for the live quantity; cancel_all_orders returns True whatever the
\* answer.  avgPrice is what the order answer carries (0 while unfilled).
close_position(ex, symbol, posOk, cancelOk, marketOk, avgPrice) ==
    LET position == get_position_for_symbol(ex.amt, ex.marginType, symbol, posOk)
        lookup   == << Get("/fapi/v2/positionRisk", "") >>
    IN  IF position = None
        THEN [result |-> OrderFailure("No position found"), ex |-> ex, reqs |-> lookup]
        ELSE LET close_side == IF position[1].side = "LONG" THEN "SELL" ELSE "BUY"
                 cancel == Request("DELETE", "/fapi/v1/allOpenOrders", symbol, "", "", 0, 0,
                                   FALSE, "")
                 market == Request("POST", "/fapi/v1/order", symbol, close_side, "MARKET",
                                   position[1].quantity, 0, TRUE, "")
                 ex1 == IF cancelOk
                        THEN [ex EXCEPT !.resting = SelectSeq(@, LAMBDA o : o.symbol # symbol)]
                        ELSE ex
                 ex2 == IF marketOk
                        THEN [ex1 EXCEPT !.amt = [@ EXCEPT ![symbol] = 0]]
                        ELSE ex1
             IN  [result |-> IF marketOk
                             THEN OrderResult(TRUE, Some("orderId"), Some(symbol),
                                              Some(close_side), Some(position[1].quantity),
                                              Some(avgPrice), Some("NEW"), None)
                             ELSE OrderFailure("Unknown error"),
                  ex     |-> ex2,
                  reqs   |-> lookup \o << cancel, market >>]

\* ------------------------------------------------------------ signal extractor
\* A message text, by what the code looks for in it: whether it is blank, a '#',
\* the pair token, a literal LONG/SHORT, the two direction glyphs, the number
\* after "Entry".
Text(blank, hashtag, pair, keyword, green, red, entry, stop_loss, take_profit) ==
    [blank |-> blank, hashtag |-> hashtag, pair |-> pair, keyword |-> keyword,
     green |-> green, red |-> red, entry |-> entry, stop_loss |-> stop_loss,
     take_profit |-> take_profit]

_extract_pair(message) == message.pair

_extract_direction(message) ==
    IF message.keyword # None THEN message.keyword
    ELSE IF message.green THEN Some("LONG")
    ELSE IF message.red THEN Some("SHORT")
    ELSE None

_extract_entry(message) == message.entry

\* The levels the text states, if any
_extract_stop_loss(message) == message.stop_loss

_extract_take_profit(message) == message.take_profit

RoundSigned(n, d) == IF n >= 0 THEN RoundHalfEven(n, d) ELSE 0 - RoundHalfEven(0 - n, d)

\* _calculate_sl_tp: percentages in 1/100 percent; round(.., 8) is rounding to
\* a whole number of price units.
_calculate_sl_tp(entry, direction, sl_percentage, tp_percentage) ==
    IF direction = "LONG"
    THEN << RoundSigned(entry * (10000 - sl_percentage), 10000),
            RoundSigned(entry * (10000 + tp_percentage), 10000) >>
    ELSE << RoundSigned(entry * (10000 + sl_percentage), 10000),
            RoundSigned(entry * (10000 - tp_percentage), 10000) >>

\* Variant that keeps a level the text states in place of the calculated one
StatedLevelsFirst(calculated, original_sl, original_tp) ==
    << IF original_sl # None THEN original_sl[1] ELSE calculated[1],
       IF original_tp # None THEN original_tp[1] ELSE calculated[2] >>

\* ParsedSignalData(stop_loss=stop_loss, take_profit=take_profit, ...): the
\* calculated pair; the stated levels only travel along as original_sl/_tp
ParsedLevels(calculated, original_sl, original_tp) == calculated

\* parse_message: None unless pair, direction and a non-zero entry are found
parse_message(message, sl_percentage, tp_percentage) ==
    LET pair      == _extract_pair(message)
        direction == _extract_direction(message)
        entry     == _extract_entry(message)
    IN  IF pair = None THEN None
        ELSE IF direction = None THEN None
        ELSE IF entry = None \/ entry = Some(0) THEN None
        ELSE LET original_sl == _extract_stop_loss(message)
                 original_tp == _extract_take_profit(message)
                 sltp == ParsedLevels(_calculate_sl_tp(entry[1], direction[1],
                                                       sl_percentage, tp_percentage),
                                      original_sl, original_tp)
             IN  Some([pair |-> pair[1], setup_type |-> direction[1], entry |-> entry[1],
                       stop_loss |-> sltp[1], take_profit |-> sltp[2],
                       original_sl |-> original_sl, original_tp |-> original_tp])

\* ---------------------------------------------------------------- persistence
DefaultConfig ==
    [margin_mode |-> "CROSSED", max_leverage |-> DefaultLeverage,
     max_position_size |-> DefaultPositionSize, sl_percentage |-> DefaultSlBp,
     tp_percentage |-> DefaultTpBp, auto_execute_trades |-> TRUE]

\* get_config: the stored row, created with the defaults on first access
get_config(cfg) == IF cfg = None THEN DefaultConfig ELSE cfg[1]

\* Variant that puts the default back into every field without an argument
update_config_resetting(cfg, margin_mode, max_leverage, max_position_size, sl_percentage, tp_percentage, auto_execute_trades) ==
    [margin_mode         |-> IF margin_mode # None THEN margin_mode[1]
                             ELSE DefaultConfig.margin_mode,
     max_leverage        |-> IF max_leverage # None THEN max_leverage[1]
                             ELSE DefaultConfig.max_leverage,
     max_position_size   |-> IF max_position_size # None THEN max_position_size[1]
                             ELSE DefaultConfig.max_position_size,
     sl_percentage       |-> IF sl_percentage # None THEN sl_percentage[1]
                             ELSE DefaultConfig.sl_percentage,
     tp_percentage       |-> IF tp_percentage # None THEN tp_percentage[1]
                             ELSE DefaultConfig.tp_percentage,
     auto_execute_trades |-> IF auto_execute_trades # None THEN auto_execute_trades[1]
                             ELSE DefaultConfig.auto_execute_trades]

\* update_config: every argument that is not None replaces its field
update_config(cfg, margin_mode, max_leverage, max_position_size, sl_percentage, tp_percentage, auto_execute_trades) ==
    LET c == get_config(cfg)
    IN  [margin_mode         |-> IF margin_mode # None THEN margin_mode[1] ELSE c.margin_mode,
         max_leverage        |-> IF max_leverage # None THEN max_leverage[1] ELSE c.max_leverage,
         max_position_size   |-> IF max_position_size # None THEN max_position_size[1]
                                 ELSE c.max_position_size,
         sl_percentage       |-> IF sl_percentage # None THEN sl_percentage[1]
                                 ELSE c.sl_percentage,
         tp_percentage       |-> IF tp_percentage # None THEN tp_percentage[1]
                                 ELSE c.tp_percentage,
         auto_execute_trades |-> IF auto_execute_trades # None THEN auto_execute_trades[1]
                                 ELSE c.auto_execute_trades]

\* reset_config
reset_config(cfg) == DefaultConfig

\* A SignalMessage row
SignalRow(id, parsed, text, channel) ==
    [id |-> id, pair |-> parsed.pair, setup_type |-> parsed.setup_type,
     entry |-> parsed.entry, stop_loss |-> parsed.stop_loss,
     take_profit |-> parsed.take_profit, channel |-> channel]

\* A Trade row as execute_trade_from_signal creates it from the entry order of
\* the result (an optional value): the exit columns are not passed to the
\* constructor and stay NULL.
TradeRow(id, signal, leverage, entry_order, status, opened_at) ==
    [id |-> id, user_id |-> UserId, signal_id |-> signal.id, pair |-> signal.pair,
     side |-> signal.setup_type, leverage |-> leverage,
     entry_price |-> IF entry_order # None THEN entry_order[1].price
                     ELSE Some(signal.entry),
     entry_quantity |-> IF entry_order # None THEN entry_order[1].quantity ELSE None,
     binance_order_id |-> IF entry_order # None THEN entry_order[1].order_id ELSE None,
     stop_loss |-> signal.stop_loss,
     take_profit |-> signal.take_profit, status |-> status, opened_at |-> opened_at,
     closed_at |-> None, exit_price |-> None, pnl |-> None, pnl_percent |-> None,
     exit_reason |-> None]

\* ------------------------------------------------------------- trade service
\* "Determine initial status based on order status"
OrderStatus(entry_order) ==
    IF entry_order # None THEN entry_order[1].status ELSE Some("PENDING")

\* Variant that opens every trade at once
InitialStatusOpen(order_status) == "OPEN"

InitialStatus(order_status) ==
    IF order_status = Some("FILLED") THEN "OPEN"
    ELSE IF order_status \in {Some("NEW"), Some("PARTIALLY_FILLED")} THEN "PENDING"
    ELSE "OPEN"

InitialOpenedAt(order_status) ==
    IF order_status = Some("FILLED") THEN Some(Now)
    ELSE IF order_status \in {Some("NEW"), Some("PARTIALLY_FILLED")} THEN None
    ELSE Some(Now)

\* What a service call returns and leaves behind
ServiceResult(success, trade, message, bin, reqs, ex, cfg, trds) ==
    [success |-> success, trade |-> trade, message |-> message, bin |-> bin,
     reqs |-> reqs, ex |-> ex, config |-> cfg, trades |-> trds]

\* Variant that records a trade whatever the result
CreatesTradeAlways(binance_result) == TRUE

\* "Only create trade record if Binance order was successful"
CreatesTrade(binance_result) == binance_result.success

\* execute_trade_from_signal: every result the call can have
execute_trade_from_signal(ex, cfg, sigs, trds, signal_id) ==
    IF signal_id \notin 1..Len(sigs)
    THEN { ServiceResult(FALSE, None, "Signal not found", None, << >>, ex, cfg, trds) }
    ELSE LET signal == sigs[signal_id]
             c == get_config(cfg)
             a == OpenArgs(signal.pair, signal.setup_type, c.max_position_size,
                           c.max_leverage, c.margin_mode, signal.entry, signal.stop_loss,
                           signal.take_profit)
         IN  { IF CreatesTrade(r)
               THEN LET entry_order == r.entry_order
                        order_status == OrderStatus(entry_order)
                        trade == TradeRow(Len(trds) + 1, signal, c.max_leverage, entry_order,
                                          InitialStatus(order_status),
                                          InitialOpenedAt(order_status))
                    IN  ServiceResult(TRUE, Some(trade), "Limit order placed successfully",
                                      Some(r), r.reqs, r.ex, Some(c), Append(trds, trade))
               ELSE ServiceResult(FALSE, None, r.message, Some(r), r.reqs, r.ex, Some(c),
                                  trds)
               : r \in open_position(ex, a) }

\* Variant that ignores the stored flag
ShouldExecuteOnFlagAlone(auto_execute, c) == auto_execute

\* "if auto_execute and config.auto_execute_trades"
ShouldExecute(auto_execute, c) == auto_execute /\ c.auto_execute_trades

\* process_telegram_message: every result the call can have; msgs and sigs are
\* the market_messages and signal_messages tables it leaves behind.
\* Variant that parses with the percentages the parser was constructed with
ConstructionPercentages(c) == << DefaultSlBp, DefaultTpBp >>

\* "Update parser with current SL/TP percentages": the percentages of the
\* stored row are loaded into the parser before every parse
ParserPercentages(c) == << c.sl_percentage, c.tp_percentage >>

process_telegram_message(ex, cfg, msgs, sigs, trds, text, channel, auto_execute) ==
    LET c      == get_config(cfg)
        msgs2  == Append(msgs, text)
        loaded == ParserPercentages(c)
        parsed == parse_message(text, loaded[1], loaded[2])
    IN  IF parsed = None
        THEN { [parsed |-> FALSE, executed |-> FALSE, messages |-> msgs2, signals |-> sigs,
                r |-> ServiceResult(FALSE, None, "Failed to parse signal from message", None,
                                    << >>, ex, Some(c), trds)] }
        ELSE LET signal == SignalRow(Len(sigs) + 1, parsed[1], text, channel)
                 sigs2  == Append(sigs, signal)
             IN  IF ShouldExecute(auto_execute, c)
                 THEN { [parsed |-> TRUE, executed |-> TRUE, messages |-> msgs2,
                         signals |-> sigs2, r |-> r]
                        : r \in execute_trade_from_signal(ex, Some(c), sigs2, trds,
                                                          signal.id) }
                 ELSE { [parsed |-> TRUE, executed |-> FALSE, messages |-> msgs2,
                         signals |-> sigs2,
                         r |-> ServiceResult(TRUE, None,
                                             "Signal parsed and stored successfully", None,
                                             << >>, ex, Some(c), trds)] }

\* "if trade.entry_price and exit_price"
Priced(trade, price) ==
    trade.entry_price # None /\ trade.entry_price # Some(0) /\ price # 0

\* The P&L close_trade computes.  pnl_percent is counted in 1/100 percent;
\* pnl = (pnl_percent / 100) * quantity * entry_price is diff * quantity.

PriceDiff(side, entry_price, exit_price) ==
    IF side = "LONG" THEN exit_price - entry_price ELSE entry_price - exit_price

PnlPercent(side, entry_price, exit_price) ==
    RoundSigned(PriceDiff(side, entry_price, exit_price) * 10000, entry_price)

\* The update close_trade makes to the row after a successful exchange close
ClosedManually(trade, price) ==
    LET priced == Priced(trade, price)
    IN  [trade EXCEPT
           !.status      = "CLOSED",
           !.closed_at   = Some(Now),
           !.exit_price  = Some(price),
           !.exit_reason = Some("MANUAL"),
           !.pnl_percent = IF priced
                           THEN Some(PnlPercent(trade.side, trade.entry_price[1], price))
                           ELSE @,
           !.pnl = IF priced /\ trade.entry_quantity # None /\ trade.entry_quantity # Some(0)
                   THEN Some(PriceDiff(trade.side, trade.entry_price[1], price)
                             * trade.entry_quantity[1])
                   ELSE @]

\* Variant without the status test
ClosableAlways(trade) == TRUE

\* Variant that also closes trades whose entry order is still resting
ClosableUnlessClosed(trade) == trade.status # "CLOSED"

\* "if trade.status != 'OPEN'": close_trade goes to the exchange for OPEN trades only
Closable(trade) == trade.status = "OPEN"

\* close_trade
close_trade(ex, trds, trade_id, posOk, cancelOk, marketOk, avgPrice) ==
    IF trade_id \notin 1..Len(trds)
    THEN ServiceResult(FALSE, None, "Trade not found", None, << >>, ex, None, trds)
    ELSE IF ~Closable(trds[trade_id])
    THEN ServiceResult(FALSE, None, "Trade is not open", None, << >>, ex, None, trds)
    ELSE LET trade == trds[trade_id]
             close_result == close_position(ex, trade.pair, posOk, cancelOk, marketOk,
                                            avgPrice)
         IN  IF close_result.result.success
             THEN LET closed == ClosedManually(trade, close_result.result.price[1])
                  IN  ServiceResult(TRUE, Some(closed), "Trade closed successfully", None,
                                    close_result.reqs, close_result.ex, None,
                                    [trds EXCEPT ![trade_id] = closed])
             ELSE ServiceResult(FALSE, None, close_result.result.message[1], None,
                                close_result.reqs, close_result.ex, None, trds)

\* get_current_price: float(response.get("price", 0)); an error answer has no
\* "price" and gives 0.0
get_current_price(mark, ok) == IF ok THEN mark ELSE 0

\* "Try to determine exit reason"
\* Variant that tests the take profit before the stop loss
ExitReasonTargetFirst(side, stop_loss, take_profit, current_price) ==
    IF side = "LONG"
    THEN IF take_profit # 0 /\ current_price >= take_profit THEN "TP_HIT"
         ELSE IF stop_loss # 0 /\ current_price <= stop_loss THEN "SL_HIT"
         ELSE "UNKNOWN"
    ELSE IF take_profit # 0 /\ current_price <= take_profit THEN "TP_HIT"
         ELSE IF stop_loss # 0 /\ current_price >= stop_loss THEN "SL_HIT"
         ELSE "UNKNOWN"

ExitReason(side, stop_loss, take_profit, current_price) ==
    IF side = "LONG"
    THEN IF stop_loss # 0 /\ current_price <= stop_loss THEN "SL_HIT"
         ELSE IF take_profit # 0 /\ current_price >= take_profit THEN "TP_HIT"
         ELSE "UNKNOWN"
    ELSE IF stop_loss # 0 /\ current_price >= stop_loss THEN "SL_HIT"
         ELSE IF take_profit # 0 /\ current_price <= take_profit THEN "TP_HIT"
         ELSE "UNKNOWN"

\* Variant that sends a reconciled trade back to PENDING
ReconciledAsPending(trade, current_price) == [trade EXCEPT !.status = "PENDING"]

\* The update sync makes to a trade whose symbol is not among the positions
Reconciled(trade, current_price) ==
    [trade EXCEPT
       !.status      = "CLOSED",
       !.closed_at   = Some(Now),
       !.exit_reason = IF current_price # 0
                       THEN Some(ExitReason(trade.side, trade.stop_loss, trade.take_profit,
                                            current_price))
                       ELSE @,
       !.exit_price  = IF current_price # 0 THEN Some(current_price) ELSE @]

\* The trades sync looks at: "Trade.user_id == user_id, Trade.status == 'OPEN'"
SyncCandidate(trade) == trade.user_id = UserId /\ trade.status = "OPEN"

\* sync_positions_with_binance: the trades table it leaves; answers[i] is the
\* exchange's answer to the price query made for trade i
sync_positions_with_binance(ex, trds, posOk, answers) ==
    LET binance_symbols == { p.symbol : p \in get_positions(ex.amt, ex.marginType, posOk) }
    IN  [i \in 1..Len(trds) |->
           IF SyncCandidate(trds[i]) /\ trds[i].pair \notin binance_symbols
           THEN Reconciled(trds[i], get_current_price(answers[i].mark, answers[i].ok))
           ELSE trds[i]]

\* ------------------------------------------------------------------ inputs
\* Message texts that reach the intake.
SignalBTC == Text(FALSE, TRUE, Some("BTCUSDT"), Some("LONG"), TRUE, FALSE, Some(40 * USD), Some(39 * USD), Some(42 * USD))
SignalETH == Text(FALSE, TRUE, Some("ETHUSDT"), Some("SHORT"), FALSE, TRUE, Some(2 * USD), None, None)
NoEntry   == Text(FALSE, TRUE, Some("BTCUSDT"), Some("LONG"), FALSE, FALSE, None, None, None)
NoHashtag == Text(FALSE, FALSE, Some("ETHUSDT"), None, FALSE, TRUE, Some(2 * USD), None, None)
BlankText == Text(TRUE, FALSE, None, None, FALSE, FALSE, None, None, None)
NoText    == Text(TRUE, FALSE, None, None, FALSE, FALSE, Some(0), None, None)

Texts == {SignalBTC, SignalETH, NoEntry, NoHashtag}

\* The text of the Telegram message with a given id
TextOf(id) ==
    IF id = 1 THEN SignalBTC
    ELSE IF id = 2 THEN BlankText
    ELSE NoHashtag

\* Mark prices the exchange can report: at the stop, at the entry, at the target
MarkPrices(symbol) ==
    IF symbol = "BTCUSDT" THEN {38 * USD, 40 * USD, 41 * USD}
    ELSE {(21 * USD) \div 10, 2 * USD, (195 * USD) \div 100}

\* Arguments an operator sends to PUT /api/config
PositionSizeChoices == {1 * USD}

\* Position sizes a stored configuration can carry besides the default
LoweredPositionSizes == {1 * USD, USD \div 4}
AutoExecuteChoices  == {FALSE}

Optional(S) == {None} \cup { Some(x) : x \in S }

\* ----------------------------------------------------------------- history
Last(op, text, id, auto_execute, extraction, parsed, executed, success, bin, reqs, posOk, answers) ==
    [op |-> op, text |-> text, id |-> id, auto_execute |-> auto_execute,
     extraction |-> extraction, parsed |-> parsed, executed |-> executed,
     success |-> success, bin |-> bin, reqs |-> reqs, posOk |-> posOk,
     answers |-> answers, args |-> << >>]

Idle(op) == Last(op, NoText, 0, FALSE, FALSE, FALSE, FALSE, FALSE, None, << >>, TRUE, << >>)

ExchangeNow == Exchange(positionAmt, exMarginType, restingOrders)

SetExchange(ex) ==
    /\ positionAmt'   = ex.amt
    /\ exMarginType'  = ex.marginType
    /\ restingOrders' = ex.resting

\* ------------------------------------------------------------------ actions
\* After start-up (main.py lifespan): empty tables, an exchange account without
\* positions or orders, an empty dedup set.
Init ==
    /\ positionAmt = [s \in Symbols |-> 0]
    /\ exMarginType = [s \in Symbols |-> "CROSSED"]
    /\ restingOrders = << >>
    /\ config = None
    /\ marketMessages = << >>
    /\ signals = << >>
    /\ trades = << >>
    /\ settingsAutoExecute \in BOOLEAN
    /\ processed_messages = {}
    /\ delivered = << >>
    /\ running = TRUE
    /\ last = Idle("init")

\* POST /api/signals/parse
ParseTelegramSignal(text, auto_execute) ==
    /\ \E p \in process_telegram_message(ExchangeNow, config, marketMessages, signals, trades,
                                         text, "Unknown", auto_execute) :
         /\ SetExchange(p.r.ex)
         /\ config' = p.r.config
         /\ marketMessages' = p.messages
         /\ signals' = p.signals
         /\ trades' = p.r.trades
         /\ last' = Last("parse", text, 0, auto_execute, TRUE, p.parsed, p.executed,
                         p.r.success, p.r.bin, p.r.reqs, TRUE, << >>)
    /\ UNCHANGED << settingsAutoExecute, listenerVars >>

\* _handle_signal: the listener's callback
HandleSignalEffect(text) ==
    IF ~text.hashtag
    THEN /\ last' = Last("handle_signal", text, 0, settingsAutoExecute, FALSE, FALSE, FALSE,
                         FALSE, None, << >>, TRUE, << >>)
         /\ UNCHANGED << exchangeVars, dbVars >>
    ELSE IF parse_message(text, DefaultSlBp, DefaultTpBp) = None
    THEN /\ last' = Last("handle_signal", text, 0, settingsAutoExecute, TRUE, FALSE, FALSE,
                         FALSE, None, << >>, TRUE, << >>)
         /\ UNCHANGED << exchangeVars, dbVars >>
    ELSE \E p \in process_telegram_message(ExchangeNow, config, marketMessages, signals,
                                           trades, text, "Telegram Auto",
                                           settingsAutoExecute) :
           /\ SetExchange(p.r.ex)
           /\ config' = p.r.config
           /\ marketMessages' = p.messages
           /\ signals' = p.signals
           /\ trades' = p.r.trades
           /\ last' = Last("handle_signal", text, 0, settingsAutoExecute, TRUE, p.parsed,
                           p.executed, p.r.success, p.r.bin, p.r.reqs, TRUE, << >>)

HandleSignal(text) ==
    /\ HandleSignalEffect(text)
    /\ UNCHANGED << settingsAutoExecute, listenerVars >>

\* One delivery, as the history records it
Delivery(id, ran, stored) == [id |-> id, ran |-> ran, stored |-> stored]

\* Variant that evicts nothing
EvictionsNone(seen) == { seen }

\* "set(list(self.processed_messages)[-500:])": the last SeenKeep elements in
\* the set's iteration order, which is the hash order of the ids and not the
\* order of their arrival: any SeenKeep of the ids can be the ones kept.
Evictions(seen) == { kept \in SUBSET seen : Cardinality(kept) = SeenKeep }

\* Variant that marks the identifier and gives the event loop to the next
\* message before the callback has run
ProcessMessageYielding(id) ==
    /\ ~TextOf(id).blank
    /\ id \notin processed_messages
    /\ LET added == processed_messages \cup {id}
       IN  IF Cardinality(added) > SeenLimit
           THEN processed_messages' \in Evictions(added)
           ELSE processed_messages' = added
    /\ delivered' = Append(delivered, Delivery(id, TRUE, 0))
    /\ last' = Idle("process_message")
    /\ UNCHANGED << exchangeVars, dbVars, settingsAutoExecute, running >>

\* _process_message: the handler of a NewMessage event
ProcessMessage(id) ==
    LET text == TextOf(id)
    IN  IF text.blank
        THEN /\ delivered' = Append(delivered, Delivery(id, FALSE, 0))
             /\ last' = Idle("process_message")
             /\ UNCHANGED << exchangeVars, dbVars, settingsAutoExecute, processed_messages,
                             running >>
        ELSE IF id \in processed_messages
        THEN /\ delivered' = Append(delivered, Delivery(id, FALSE, 0))
             /\ last' = Idle("process_message")
             /\ UNCHANGED << exchangeVars, dbVars, settingsAutoExecute, processed_messages,
                             running >>
        ELSE /\ LET added == processed_messages \cup {id}
                IN  IF Cardinality(added) > SeenLimit
                    THEN processed_messages' \in Evictions(added)
                    ELSE processed_messages' = added
             /\ HandleSignalEffect(text)
             /\ delivered' = Append(delivered,
                                    Delivery(id, TRUE, Len(signals') - Len(signals)))
             /\ UNCHANGED << settingsAutoExecute, running >>

\* POST /api/signals/{signal_id}/execute
ExecuteSignal(signal_id) ==
    /\ \E r \in execute_trade_from_signal(ExchangeNow, config, signals, trades, signal_id) :
         /\ SetExchange(r.ex)
         /\ config' = r.config
         /\ trades' = r.trades
         /\ last' = Last("execute", NoText, signal_id, FALSE, FALSE, FALSE, TRUE, r.success,
                         r.bin, r.reqs, TRUE, << >>)
    /\ UNCHANGED << marketMessages, signals, settingsAutoExecute, listenerVars >>

\* The answers the exchange can give to the requests of one close_trade call:
\* only the requests the call makes have more than one possible answer.
CloseAnswers(trade_id) ==
    IF trade_id \notin 1..Len(trades) \/ ~Closable(trades[trade_id])
    THEN { [posOk |-> TRUE, cancelOk |-> TRUE, marketOk |-> TRUE, avgPrice |-> 0] }
    ELSE IF positionAmt[trades[trade_id].pair] = 0
    THEN { [posOk |-> TRUE, cancelOk |-> TRUE, marketOk |-> TRUE, avgPrice |-> 0] }
    ELSE { [posOk |-> FALSE, cancelOk |-> TRUE, marketOk |-> TRUE, avgPrice |-> 0] }
         \cup { [posOk |-> TRUE, cancelOk |-> c, marketOk |-> FALSE, avgPrice |-> 0]
                : c \in BOOLEAN }
         \cup { [posOk |-> TRUE, cancelOk |-> c, marketOk |-> TRUE, avgPrice |-> p]
                : c \in BOOLEAN, p \in {0} \cup MarkPrices(trades[trade_id].pair) }

\* POST /api/trades/close/{trade_id}
ClosePosition(trade_id) ==
    /\ \E a \in CloseAnswers(trade_id) :
         LET r == close_trade(ExchangeNow, trades, trade_id, a.posOk, a.cancelOk, a.marketOk,
                              a.avgPrice)
         IN  /\ SetExchange(r.ex)
             /\ trades' = r.trades
             /\ last' = Last("close", NoText, trade_id, FALSE, FALSE, FALSE, FALSE,
                             r.success, None, r.reqs, a.posOk, << >>)
    /\ UNCHANGED << config, marketMessages, signals, settingsAutoExecute, listenerVars >>

\* The answers the exchange can give to the price queries of one sync: one per
\* trade; only the queries sync makes have more than one possible answer.
PriceAnswer(mark, ok) == [mark |-> mark, ok |-> ok]

NotAsked == PriceAnswer(0, TRUE)

PriceAnswers(i, binance_symbols) ==
    IF SyncCandidate(trades[i]) /\ trades[i].pair \notin binance_symbols
    THEN { PriceAnswer(m, TRUE) : m \in MarkPrices(trades[i].pair) }
         \cup { PriceAnswer(0, FALSE) }
    ELSE { NotAsked }

SyncAnswers(posOk) ==
    LET symbols == { p.symbol : p \in get_positions(positionAmt, exMarginType, posOk) }
        all == UNION { PriceAnswers(i, symbols) : i \in 1..Len(trades) }
    IN  { f \in [1..Len(trades) -> all] :
            \A i \in 1..Len(trades) : f[i] \in PriceAnswers(i, symbols) }

\* POST /api/trades/sync
SyncPositions ==
    /\ \E posOk \in BOOLEAN :
         \E answers \in SyncAnswers(posOk) :
           /\ trades' = sync_positions_with_binance(ExchangeNow, trades, posOk, answers)
           /\ last' = Last("sync", NoText, 0, FALSE, FALSE, FALSE, FALSE, TRUE, None,
                           << Get("/fapi/v2/positionRisk", "") >>, posOk, answers)
    /\ UNCHANGED << exchangeVars, config, marketMessages, signals, settingsAutoExecute,
                    listenerVars >>

\* PUT /api/config
UpdateConfig(max_position_size, auto_execute_trades) ==
    /\ config' = Some(update_config(config, None, None, max_position_size, None, None,
                                    auto_execute_trades))
    /\ last' = Idle("update_config")
    /\ UNCHANGED << exchangeVars, marketMessages, signals, trades, settingsAutoExecute,
                    listenerVars >>

\* POST /api/config/reset
ResetConfig ==
    /\ config' = Some(reset_config(config))
    /\ last' = Idle("reset_config")
    /\ UNCHANGED << exchangeVars, marketMessages, signals, trades, settingsAutoExecute,
                    listenerVars >>

\* The exchange fills a resting entry order
ExchangeFills(i) ==
    /\ i \in 1..Len(restingOrders)
    /\ LET o == restingOrders[i]
       IN  /\ positionAmt' = [positionAmt EXCEPT
                                ![o.symbol] = @ + SignedQty(o.side, o.quantity)]
           /\ restingOrders' = SubSeq(restingOrders, 1, i - 1)
                               \o SubSeq(restingOrders, i + 1, Len(restingOrders))
    /\ last' = Idle("exchange")
    /\ UNCHANGED << exMarginType, dbVars, settingsAutoExecute, listenerVars >>

\* The exchange closes a position (stop, target, liquidation, manual close)
ExchangeCloses(symbol) ==
    /\ positionAmt[symbol] # 0
    /\ positionAmt' = [positionAmt EXCEPT ![symbol] = 0]
    /\ last' = Idle("exchange")
    /\ UNCHANGED << exMarginType, restingOrders, dbVars, settingsAutoExecute, listenerVars >>

\* A position is opened on the account outside this program (the exchange's
\* own front end): one lot, long.
ExchangeOpens(symbol) ==
    /\ positionAmt[symbol] = 0
    /\ positionAmt' = [positionAmt EXCEPT ![symbol] = 1]
    /\ last' = Idle("exchange")
    /\ UNCHANGED << exMarginType, restingOrders, dbVars, settingsAutoExecute, listenerVars >>

\* ------------------------------------------------- trading: execute, close, sync
\* The database after two POST /api/signals/parse calls with auto_execute=false,
\* one signal per symbol, and at most one PUT /api/config that lowers the
\* position size; the account on the exchange is still empty.
StoredSignals ==
    << SignalRow(1, parse_message(SignalBTC, DefaultSlBp, DefaultTpBp)[1], SignalBTC,
                 "Unknown"),
       SignalRow(2, parse_message(SignalETH, DefaultSlBp, DefaultTpBp)[1], SignalETH,
                 "Unknown") >>

StoredConfigs ==
    { Some(DefaultConfig) }
    \cup { Some(update_config(Some(DefaultConfig), None, None, Some(size), None, None, None))
           : size \in LoweredPositionSizes }

InitTrading ==
    /\ positionAmt = [s \in Symbols |-> 0]
    /\ exMarginType = [s \in Symbols |-> "CROSSED"]
    /\ restingOrders = << >>
    /\ config \in StoredConfigs
    /\ marketMessages = << SignalBTC, SignalETH >>
    /\ signals = StoredSignals
    /\ trades = << >>
    /\ settingsAutoExecute = TRUE
    /\ processed_messages = {}
    /\ delivered = << >>
    /\ running = TRUE
    /\ last = Idle("init")

Next ==
    \/ \E signal_id \in 1..(Len(signals) + 1) :
         /\ Len(trades) < MaxTrades
         /\ ExecuteSignal(signal_id)
    \/ \E trade_id \in 1..(Len(trades) + 1) : ClosePosition(trade_id)
    \/ SyncPositions
    \/ \E i \in 1..Len(restingOrders) : ExchangeFills(i)
    \/ \E symbol \in Symbols : ExchangeCloses(symbol)
    \/ \E symbol \in Symbols : ExchangeOpens(symbol)

Spec == InitTrading /\ [][Next]_vars

\* --------------------------------------------------- intake: parse API, callback
NextIntake ==
    \/ \E text \in Texts, auto_execute \in BOOLEAN :
         /\ Len(marketMessages) < MaxMessages
         /\ Len(signals) < MaxSignals
         /\ Len(trades) < MaxTrades
         /\ ParseTelegramSignal(text, auto_execute)
    \/ \E text \in Texts :
         /\ Len(marketMessages) < MaxMessages
         /\ Len(signals) < MaxSignals
         /\ Len(trades) < MaxTrades
         /\ HandleSignal(text)
    \/ \E max_position_size \in Optional(PositionSizeChoices),
          auto_execute_trades \in Optional(AutoExecuteChoices) :
         UpdateConfig(max_position_size, auto_execute_trades)
    \/ ResetConfig

SpecIntake == Init /\ [][NextIntake]_vars

\* ------------------------------------------------------- listener: deduplication
InitListener ==
    /\ Init
    /\ settingsAutoExecute = FALSE

NextListener ==
    \E id \in 1..NumIds :
       /\ Len(delivered) < MaxDelivered
       /\ ProcessMessage(id)

SpecListener == InitListener /\ [][NextListener]_vars

\* ================================================================== properties
\* The open_position result of the step just taken, if the step called it
OpenCalled == last.op = "execute" /\ last.bin # None

NoOrderIn(reqs) == \A i \in 1..Len(reqs) : ~IsOrder(reqs[i])

\* C1: when open_position returns success = false, execute_trade_from_signal
\* leaves the trades table as it was, and the signal it was called for stays
\* in the signals table.
C1_FailedOpenCreatesNoTrade ==
    [][ (last'.op = "execute" /\ last'.bin # None /\ ~last'.bin[1].success)
        => (trades' = trades /\ signals' = signals /\ last'.id \in 1..Len(signals')) ]_vars

C1_EntryRejected ==
    /\ OpenCalled
    /\ ~last.bin[1].success
    /\ last.bin[1].message = "Entry order failed"
    /\ trades = << >>
    /\ Len(signals) = 2

\* C2: when the minimum-notional check of open_position fails, the call sends
\* no order request, its result carries no entry, stop-loss or take-profit
\* order, and the exchange holds the positions and resting orders it held
\* before.  The check fails when the call says so, and it fails whatever
\* minimum the exchange reports when quantity x entry price is above none of
\* them plus the buffer.
NotionalOf(signal, c) ==
    RoundHalfEven(c.max_position_size * c.max_leverage, signal.entry) * signal.entry

NotionalBelowEveryMinimum(signal, c) ==
    \A ok \in BOOLEAN :
       NotionalOf(signal, c) <= get_min_notional(signal.pair, ok) + NotionalBuffer

C2_NoOrderBelowMinNotional ==
    [][ (/\ last'.op = "execute"
         /\ last'.bin # None
         /\ \/ last'.bin[1].message = "Order rejected: Notional value"
            \/ NotionalBelowEveryMinimum(signals[last'.id], get_config(config)))
        => (/\ NoOrderIn(last'.reqs)
            /\ last'.bin[1].entry_order = None
            /\ last'.bin[1].sl_order = None
            /\ last'.bin[1].tp_order = None
            /\ positionAmt' = positionAmt
            /\ restingOrders' = restingOrders
            /\ trades' = trades) ]_vars

C2_RejectedForNotional ==
    /\ OpenCalled
    /\ last.bin[1].message = "Order rejected: Notional value"
    /\ NotionalOf(signals[last.id], get_config(config)) > 0
    /\ NotionalBelowEveryMinimum(signals[last.id], get_config(config))


\* C3: when the exchange holds a non-zero position for the symbol at the
\* moment open_position is called, the call fails and sends no order, no
\* leverage change and no margin-type change for that symbol.
C3_LivePositionBlocksOpen ==
    [][ (/\ last'.op = "execute"
         /\ last'.bin # None
         /\ positionAmt[signals[last'.id].pair] # 0)
        => (/\ ~last'.bin[1].success
            /\ \A i \in 1..Len(last'.reqs) :
                  ~(IsMutation(last'.reqs[i])
                    /\ last'.reqs[i].symbol = signals[last'.id].pair)) ]_vars

\* C4: no step moves a CLOSED or CANCELLED trade to another status or an OPEN
\* trade back to PENDING, and no step removes a trade.
StatusRank(status) ==
    IF status = "PENDING" THEN 0 ELSE IF status = "OPEN" THEN 1 ELSE 2

C4_StatusMovesForward ==
    [][ /\ Len(trades') >= Len(trades)
        /\ \A i \in 1..Len(trades) :
              /\ trades[i].status \in {"CLOSED", "CANCELLED"}
                 => trades'[i].status = trades[i].status
              /\ StatusRank(trades'[i].status) >= StatusRank(trades[i].status) ]_vars

C4_ClosedTradeClosedAgain ==
    /\ last.op = "close"
    /\ last.id \in 1..Len(trades)
    /\ ~last.success
    /\ trades[last.id].status = "CLOSED"
    /\ trades[last.id].exit_reason \in {Some("SL_HIT"), Some("TP_HIT"), Some("UNKNOWN")}

\* C5: in every state a trade that is not CLOSED has closed_at, exit_price,
\* exit_reason, pnl and pnl_percent unset, and a step changes these fields of
\* a trade only if it moves the trade into CLOSED.
ExitFields(trade) ==
    << trade.closed_at, trade.exit_price, trade.exit_reason, trade.pnl, trade.pnl_percent >>

C5_ExitFieldsOnlyWhenClosed ==
    /\ [](\A i \in 1..Len(trades) :
             trades[i].status # "CLOSED"
             => ExitFields(trades[i]) = << None, None, None, None, None >>)
    /\ [][ \A i \in 1..Len(trades) :
              ExitFields(trades'[i]) # ExitFields(trades[i])
              => (trades[i].status # "CLOSED" /\ trades'[i].status = "CLOSED") ]_vars

C5_ClosedWithExitFields ==
    /\ last.op = "close"
    /\ last.success
    /\ trades[last.id].status = "CLOSED"
    /\ trades[last.id].pnl # None
    /\ trades[last.id].exit_price # None

\* C6: after open_position succeeds, the trade execute_trade_from_signal
\* created is OPEN with opened_at set when the entry order's status is FILLED,
\* and PENDING with opened_at unset when it is NEW or PARTIALLY_FILLED.
C6_InitialStatusFollowsEntry ==
    (OpenCalled /\ last.bin[1].success)
    => /\ Len(trades) > 0
       /\ LET trade == trades[Len(trades)]
              status == last.bin[1].entry_order[1].status
          IN  /\ trade.signal_id = last.id
              /\ status = Some("FILLED")
                 => (trade.status = "OPEN" /\ trade.opened_at # None)
              /\ status \in {Some("NEW"), Some("PARTIALLY_FILLED")}
                 => (trade.status = "PENDING" /\ trade.opened_at = None)

C6_RestingEntryIsPending ==
    /\ OpenCalled
    /\ last.bin[1].success
    /\ last.bin[1].entry_order[1].status = Some("PARTIALLY_FILLED")
    /\ trades[Len(trades)].status = "PENDING"
    /\ restingOrders # << >>

\* C7: a sync step closes every OPEN trade of the user whose symbol has no
\* live position on the exchange, with closed_at set, exit_price set to the
\* mark price and an exit reason among SL_HIT, TP_HIT, UNKNOWN that agrees
\* with the trade's direction; it leaves every OPEN trade whose symbol has a
\* live position as it was.
DirectionConsistent(trade, price, reason) ==
    /\ reason \in {"SL_HIT", "TP_HIT", "UNKNOWN"}
    /\ reason = "SL_HIT"
       => IF trade.side = "LONG" THEN price <= trade.stop_loss
          ELSE price >= trade.stop_loss
    /\ reason = "TP_HIT"
       => IF trade.side = "LONG" THEN price >= trade.take_profit
          ELSE price <= trade.take_profit

C7_SyncReconciles ==
    [][ last'.op = "sync"
        => \A i \in 1..Len(trades) :
              (trades[i].user_id = UserId /\ trades[i].status = "OPEN")
              => IF positionAmt[trades[i].pair] = 0
                 THEN /\ trades'[i].status = "CLOSED"
                      /\ trades'[i].closed_at # None
                      /\ trades'[i].exit_price # None
                      /\ trades'[i].exit_price[1] \in MarkPrices(trades[i].pair)
                      /\ trades'[i].exit_reason # None
                      /\ DirectionConsistent(trades[i], trades'[i].exit_price[1],
                                             trades'[i].exit_reason[1])
                 ELSE trades'[i] = trades[i] ]_vars

\* C8: when the listener is delivered an identifier whose callback it has
\* run, and fewer than SeenLimit other identifiers were delivered in between,
\* the second delivery does not run the callback and stores no signal.
OthersBetween(i, j) ==
    { delivered[k].id : k \in (i + 1)..(j - 1) } \ { delivered[i].id }

C8_DuplicateRunsOnce ==
    \A i \in 1..Len(delivered), j \in 1..Len(delivered) :
       (/\ i < j
        /\ delivered[i].id = delivered[j].id
        /\ delivered[i].ran
        /\ Cardinality(OthersBetween(i, j)) < SeenLimit)
       => (~delivered[j].ran /\ delivered[j].stored = 0)

\* C9: on both intake paths a message that reaches the extractor adds exactly
\* one row, holding its text, to market_messages, and when the extraction
\* fails no row is added to signal_messages.
C9_RawMessageAlwaysStored ==
    [][ (last'.op \in {"parse", "handle_signal"} /\ last'.extraction)
        => (/\ Len(marketMessages') = Len(marketMessages) + 1
            /\ marketMessages'[Len(marketMessages')] = last'.text
            /\ ~last'.parsed => signals' = signals) ]_vars

\* C10: a process_telegram_message call that extracted a signal reaches the
\* orchestrator (sends a request, creates a trade) only when its auto_execute
\* argument and the stored auto_execute_trades are both true; when one of them
\* is false the signal is stored, the result is a success, no POST or DELETE
\* request is sent, and trades and exchange stay as they were.
ProcessCalled == last.op = "parse" \/ (last.op = "handle_signal" /\ last.parsed)

C10_ExecutesOnlyWhenBothFlags ==
    [][ (ProcessCalled' /\ last'.parsed)
        => LET both == last'.auto_execute /\ get_config(config).auto_execute_trades
           IN  /\ (last'.executed \/ last'.reqs # << >> \/ trades' # trades) => both
               /\ ~both
                  => (/\ Len(signals') = Len(signals) + 1
                      /\ last'.success
                      /\ \A i \in 1..Len(last'.reqs) : ~IsMutation(last'.reqs[i])
                      /\ trades' = trades
                      /\ UNCHANGED exchangeVars) ]_vars

C10_StoredFlagOffSkipsExecution ==
    /\ ProcessCalled
    /\ last.parsed
    /\ last.auto_execute
    /\ ~get_config(config).auto_execute_trades
    /\ ~last.executed
    /\ last.success
    /\ Len(signals) = 1
    /\ trades = << >>

\* C11: every leverage request an open_position call sends carries the
\* symbol's cap when the configured leverage exceeds the cap, and the
\* configured leverage otherwise.
CappedLeverage(symbol, leverage) ==
    IF leverage > ExchangeMaxLeverage(symbol) THEN ExchangeMaxLeverage(symbol) ELSE leverage

C11_LeverageCappedAtSymbolMaximum ==
    [][ (last'.op = "execute" /\ last'.bin # None)
        => \A i \in 1..Len(last'.reqs) :
              last'.reqs[i].endpoint = "/fapi/v1/leverage"
              => last'.reqs[i].value
                 = ToString(CappedLeverage(signals[last'.id].pair,
                                           get_config(config).max_leverage)) ]_vars

\* C12: once the exchange has accepted the entry order, open_position
\* returns success = true whatever became of the stop loss and the take
\* profit; the result carries both protective results, a failed one with
\* success = false and its message, and the call sends no cancel request, so
\* that the accepted entry stays on the exchange.
EntryAccepted(bin) == bin.entry_order # None /\ bin.entry_order[1].success

IsProtective(r) == r.method = "POST" /\ r.endpoint = "/fapi/v1/algoOrder"

C12_ProtectiveFailureKeepsEntry ==
    [][ (last'.op = "execute" /\ last'.bin # None /\ EntryAccepted(last'.bin[1]))
        => LET bin == last'.bin[1]
           IN  /\ bin.success
               /\ bin.sl_order # None /\ bin.tp_order # None
               /\ ~bin.sl_order[1].success => bin.sl_order[1].message # None
               /\ ~bin.tp_order[1].success => bin.tp_order[1].message # None
               /\ \A i \in 1..Len(last'.reqs) : last'.reqs[i].method # "DELETE"
               /\ bin.entry_order[1].status \in {Some("NEW"), Some("PARTIALLY_FILLED")}
                  => Len(restingOrders') = Len(restingOrders) + 1
               /\ Len(trades') = Len(trades) + 1 ]_vars

C12_BothProtectiveFailed ==
    /\ OpenCalled
    /\ EntryAccepted(last.bin[1])
    /\ last.bin[1].success
    /\ ~last.bin[1].sl_order[1].success
    /\ ~last.bin[1].tp_order[1].success
    /\ Len(trades) = 1
    /\ restingOrders # << >>

\* C13: when the entry order is rejected or fails, open_position returns
\* success = false, its result carries neither a stop loss nor a take profit,
\* and the call sends no protective order request.
C13_RejectedEntrySendsNoProtective ==
    (OpenCalled /\ last.bin[1].entry_order # None /\ ~last.bin[1].entry_order[1].success)
    => /\ ~last.bin[1].success
       /\ last.bin[1].sl_order = None
       /\ last.bin[1].tp_order = None
       /\ \A i \in 1..Len(last.reqs) : ~IsProtective(last.reqs[i])

C13_EntryRejectedAfterChecks ==
    /\ OpenCalled
    /\ last.bin[1].entry_order # None
    /\ ~last.bin[1].entry_order[1].success
    /\ \E i \in 1..Len(last.reqs) : IsOrder(last.reqs[i]) /\ last.reqs[i].type = "LIMIT"
    /\ restingOrders = << >>

\* ------------------------------------------- parser: extraction and price levels
\* Texts that differ in how they name the direction, in the size of the entry
\* and in the levels they state
TinyEntry   == Text(FALSE, TRUE, Some("BTCUSDT"), Some("LONG"), FALSE, FALSE, Some(1), None, None)
BothGlyphs  == Text(FALSE, TRUE, Some("ETHUSDT"), None, TRUE, TRUE, Some(2 * USD), None, None)
GreenOnly   == Text(FALSE, TRUE, Some("ETHUSDT"), None, TRUE, FALSE, Some(2 * USD), None, None)
NoDirection == Text(FALSE, TRUE, Some("BTCUSDT"), None, FALSE, FALSE, Some(40 * USD), None, None)

ParserTexts == {SignalBTC, TinyEntry, BothGlyphs, GreenOnly, NoHashtag, NoDirection}

\* Percentages an operator sends to PUT /api/config, in 1/100 percent
SlChoices == {0}
TpChoices == {DefaultSlBp}

\* PUT /api/config with the two percentages
UpdatePercentages(sl_percentage, tp_percentage) ==
    /\ config' = Some(update_config(config, None, None, None, sl_percentage, tp_percentage,
                                    None))
    /\ last' = Idle("update_config")
    /\ UNCHANGED << exchangeVars, marketMessages, signals, trades, settingsAutoExecute,
                    listenerVars >>

NextParser ==
    \/ \E text \in ParserTexts :
         /\ Len(marketMessages) < MaxMessages
         /\ ParseTelegramSignal(text, FALSE)
    \/ \E sl_percentage \in Optional(SlChoices), tp_percentage \in Optional(TpChoices) :
         UpdatePercentages(sl_percentage, tp_percentage)
    \/ ResetConfig

SpecParser == Init /\ [][NextParser]_vars

\* C14: every stored signal has its levels on the two sides of the entry:
\* SL < Entry < TP for LONG and TP < Entry < SL for SHORT.
LevelsOrdered(signal) ==
    IF signal.setup_type = "LONG"
    THEN signal.stop_loss < signal.entry /\ signal.entry < signal.take_profit
    ELSE signal.take_profit < signal.entry /\ signal.entry < signal.stop_loss

C14_LevelsOnBothSidesOfEntry ==
    \A i \in 1..Len(signals) : LevelsOrdered(signals[i])

\* C15: what a parse extracts is a function of the text and of the stored
\* configuration alone: the pair, direction, entry, SL and TP of the stored
\* signal are those of parsing the text under the stored percentages, in the
\* state before the call and again in the state after it, whatever messages,
\* signals and configuration changes came before.
Extracted(r) == << r.pair, r.setup_type, r.entry, r.stop_loss, r.take_profit >>

ParseUnder(text, cfg) ==
    parse_message(text, get_config(cfg).sl_percentage, get_config(cfg).tp_percentage)

C15_ExtractionDependsOnTextAndConfig ==
    [][ last'.op = "parse"
        => LET before == ParseUnder(last'.text, config)
               again  == ParseUnder(last'.text, config')
           IN  /\ before = again
               /\ last'.parsed = (before # None)
               /\ IF before = None THEN signals' = signals
                  ELSE /\ Len(signals') = Len(signals) + 1
                       /\ Extracted(signals'[Len(signals')]) = Extracted(before[1])
                       /\ \A i \in 1..Len(signals) : signals'[i] = signals[i] ]_vars

\* The same text parsed and stored twice under one stored configuration, after
\* the configuration was changed
C15_SameTextParsedTwice ==
    /\ last.op = "parse"
    /\ Len(marketMessages) = 2
    /\ marketMessages[1] = marketMessages[2]
    /\ Len(signals) = 2
    /\ Extracted(signals[1]) = Extracted(signals[2])
    /\ get_config(config).sl_percentage = 0

\* C16: the SL and TP of a stored signal are the levels calculated from its
\* entry, its direction and the stored percentages, and the protective orders
\* of the execution that follows carry these levels at the symbol's price
\* precision; the levels the text states appear in neither.
StoresSignal == last'.op \in {"parse", "handle_signal"} /\ Len(signals') = Len(signals) + 1

C16_LevelsDerivedFromEntryAndConfig ==
    [][ StoresSignal
        => LET signal == signals'[Len(signals')]
               c      == get_config(config)
               levels == _calculate_sl_tp(signal.entry, signal.setup_type, c.sl_percentage,
                                          c.tp_percentage)
           IN  /\ signal.entry = last'.text.entry[1]
               /\ signal.stop_loss = levels[1]
               /\ signal.take_profit = levels[2]
               /\ \A i \in 1..Len(last'.reqs) :
                     LET r == last'.reqs[i]
                     IN  /\ r.type = "STOP_MARKET"
                            => r.price = RoundDigits(levels[1], PricePrecision(signal.pair))
                         /\ r.type = "TAKE_PROFIT_MARKET"
                            => r.price = RoundDigits(levels[2], PricePrecision(signal.pair)) ]_vars

\* A text stating SL 39 and TP 42 for an entry of 40 was stored with 38 and 41
\* and executed with protective orders at 38 and 41
C16_StatedLevelsIgnored ==
    /\ last.op = "parse"
    /\ last.text = SignalBTC
    /\ last.text.stop_loss = Some(39 * USD) /\ last.text.take_profit = Some(42 * USD)
    /\ last.executed
    /\ signals[Len(signals)].stop_loss = 38 * USD
    /\ signals[Len(signals)].take_profit = 41 * USD
    /\ \E i \in 1..Len(last.reqs) :
          last.reqs[i].type = "STOP_MARKET" /\ last.reqs[i].price = 38 * USD
    /\ \E i \in 1..Len(last.reqs) :
          last.reqs[i].type = "TAKE_PROFIT_MARKET" /\ last.reqs[i].price = 41 * USD

\* C17: for a text with a pair and an entry but without the word LONG or
\* SHORT, the parse succeeds exactly when one of the two glyphs is present,
\* with LONG for the bullish glyph and SHORT for the bearish one; with both
\* glyphs or with neither it fails.
C17_GlyphDirectionNeedsExactlyOne ==
    (/\ last.op = "parse"
     /\ last.text.keyword = None
     /\ last.text.pair # None
     /\ last.text.entry # None /\ last.text.entry # Some(0))
    => /\ last.parsed = (last.text.green # last.text.red)
       /\ last.parsed
          => signals[Len(signals)].setup_type
             = (IF last.text.green THEN "LONG" ELSE "SHORT")

\* ------------------------------------------------ reads: positions and totals
\* get_active_positions: one PositionResponse per live position of the
\* exchange's answer, joined with the first OPEN trade of the same pair
FirstOpenTrade(trds, symbol) ==
    LET open == { i \in 1..Len(trds) :
                    /\ trds[i].user_id = UserId
                    /\ trds[i].status = "OPEN"
                    /\ trds[i].pair = symbol }
    IN  IF open = {} THEN None ELSE Some(trds[CHOOSE i \in open : \A j \in open : i <= j])

PositionResponse(pos, matching_trade) ==
    [id |-> IF matching_trade # None THEN matching_trade[1].id ELSE 0,
     pair |-> pos.symbol, side |-> pos.side, quantity |-> pos.quantity,
     stop_loss |-> IF matching_trade # None THEN Some(matching_trade[1].stop_loss) ELSE None,
     take_profit |-> IF matching_trade # None THEN Some(matching_trade[1].take_profit)
                     ELSE None,
     status |-> "OPEN"]

get_active_positions(ex, trds, posOk) ==
    { PositionResponse(pos, FirstOpenTrade(trds, pos.symbol))
      : pos \in get_positions(ex.amt, ex.marginType, posOk) }

\* get_total_pnl: the counts of the answer (the amounts are sums over the
\* same positions)
get_total_pnl(ex, trds, posOk) ==
    LET positions == get_active_positions(ex, trds, posOk)
        closed_trades == Cardinality({ i \in 1..Len(trds) :
                                         /\ trds[i].user_id = UserId
                                         /\ trds[i].status = "CLOSED" })
    IN  [open_positions |-> Cardinality(positions),
         total_trades   |-> closed_trades + Cardinality(positions)]

PositionsRequest == Get("/fapi/v2/positionRisk", "")

\* GET /api/trades/positions: sync, then the read
GetActivePositions ==
    /\ \E posOk \in BOOLEAN, readOk \in BOOLEAN :
         \E answers \in SyncAnswers(posOk) :
           LET synced == sync_positions_with_binance(ExchangeNow, trades, posOk, answers)
           IN  /\ trades' = synced
               /\ last' = Last("get_active_positions", NoText, 0, FALSE, FALSE, FALSE, FALSE,
                               TRUE, Some(get_active_positions(ExchangeNow, synced, readOk)),
                               << PositionsRequest, PositionsRequest >>, readOk, answers)
    /\ UNCHANGED << exchangeVars, config, marketMessages, signals, settingsAutoExecute,
                    listenerVars >>

\* GET /api/trades/pnl: the read alone
GetTotalPnl ==
    /\ \E readOk \in BOOLEAN :
         last' = Last("get_total_pnl", NoText, 0, FALSE, FALSE, FALSE, FALSE, TRUE,
                      Some(get_total_pnl(ExchangeNow, trades, readOk)),
                      << PositionsRequest >>, readOk, << >>)
    /\ UNCHANGED << exchangeVars, dbVars, settingsAutoExecute, listenerVars >>

\* The state after one successful POST /api/signals/{id}/execute on the stored
\* signals: a trade in the table, its entry filled or resting on the exchange
InitReads ==
    /\ config = Some(DefaultConfig)
    /\ marketMessages = << SignalBTC, SignalETH >>
    /\ signals = StoredSignals
    /\ settingsAutoExecute = TRUE
    /\ processed_messages = {}
    /\ delivered = << >>
    /\ running = TRUE
    /\ last = Idle("init")
    /\ \E signal_id \in 1..Len(StoredSignals) :
         \E r \in execute_trade_from_signal(
                    Exchange([s \in Symbols |-> 0], [s \in Symbols |-> "CROSSED"], << >>),
                    Some(DefaultConfig), StoredSignals, << >>, signal_id) :
           /\ r.success
           /\ positionAmt = r.ex.amt
           /\ exMarginType = r.ex.marginType
           /\ restingOrders = r.ex.resting
           /\ trades = r.trades

NextReads ==
    \/ GetActivePositions
    \/ GetTotalPnl
    \/ SyncPositions
    \/ \E i \in 1..Len(restingOrders) : ExchangeFills(i)
    \/ \E symbol \in Symbols : ExchangeCloses(symbol)
    \/ \E symbol \in Symbols : ExchangeOpens(symbol)

SpecReads == InitReads /\ [][NextReads]_vars

\* C18: every answer built from get_active_positions is served by a request
\* that ran sync_positions_with_binance first: the request asks the exchange
\* for the positions twice, once for the sync and once for the read, and the
\* trades table it leaves is the one the sync leaves.
ServedReads == {"get_active_positions", "get_total_pnl"}

C18_ReadsRunSyncFirst ==
    [][ last'.op \in ServedReads
        => /\ last'.reqs = << PositionsRequest, PositionsRequest >>
           /\ \E posOk \in BOOLEAN :
                \E answers \in SyncAnswers(posOk) :
                  trades' = sync_positions_with_binance(ExchangeNow, trades, posOk,
                                                        answers) ]_vars

\* C19: a close_position call for a symbol with a live position sends the
\* cancel of all open orders and then exactly one reduce-only market order
\* for the live quantity, SELL for a long and BUY for a short position, and
\* nothing else that changes the account; for a symbol without a live
\* position it sends neither and returns a failure.
ClosePositionCalled ==
    /\ last'.op = "close"
    /\ last'.id \in 1..Len(trades)
    /\ Closable(trades[last'.id])

Mutations(reqs) == SelectSeq(reqs, IsMutation)

CloseSequence(symbol, amt) ==
    << Request("DELETE", "/fapi/v1/allOpenOrders", symbol, "", "", 0, 0, FALSE, ""),
       Request("POST", "/fapi/v1/order", symbol, IF amt > 0 THEN "SELL" ELSE "BUY",
               "MARKET", Abs(amt), 0, TRUE, "") >>

C19_CloseCancelsThenReduces ==
    [][ ClosePositionCalled
        => LET symbol == trades[last'.id].pair
           IN  IF positionAmt[symbol] # 0
               THEN Mutations(last'.reqs) = CloseSequence(symbol, positionAmt[symbol])
               ELSE Mutations(last'.reqs) = << >> /\ ~last'.success ]_vars

\* The same sequence under the assumption that the position lookup of the call
\* was answered
CloseSequenceWhenLookupAnswered ==
    [][ (ClosePositionCalled /\ last'.posOk)
        => LET symbol == trades[last'.id].pair
           IN  IF positionAmt[symbol] # 0
               THEN Mutations(last'.reqs) = CloseSequence(symbol, positionAmt[symbol])
               ELSE Mutations(last'.reqs) = << >> /\ ~last'.success ]_vars

\* C20: close_trade changes the trades table only for an OPEN trade whose
\* position the exchange closed: that trade becomes CLOSED with exit reason
\* MANUAL and a closing time, every other trade stays as it was, and the call
\* returns success.  For a missing trade, a trade in another status or a
\* close the exchange did not perform it returns success = false and leaves
\* the table unchanged, and in the first two cases it sends no request.
C20_CloseTradeChangesOnlyOpenTrade ==
    [][ last'.op = "close"
        => LET id    == last'.id
               found == id \in 1..Len(trades)
               open  == found /\ trades[id].status = "OPEN"
           IN  /\ last'.success = (trades' # trades)
               /\ last'.success
                  => /\ open
                     /\ positionAmt[trades[id].pair] # 0
                     /\ positionAmt'[trades[id].pair] = 0
                     /\ Len(trades') = Len(trades)
                     /\ trades'[id].status = "CLOSED"
                     /\ trades'[id].exit_reason = Some("MANUAL")
                     /\ trades'[id].closed_at # None
                     /\ \A j \in 1..Len(trades) : j # id => trades'[j] = trades[j]
               /\ ~open
                  => /\ ~last'.success
                     /\ last'.reqs = << >>
                     /\ UNCHANGED exchangeVars
               /\ (open /\ positionAmt' = positionAmt) => ~last'.success ]_vars

\* An OPEN trade closed by hand, the position gone from the exchange
C20_OpenTradeClosedByHand ==
    /\ last.op = "close"
    /\ last.success
    /\ last.id \in 1..Len(trades)
    /\ trades[last.id].status = "CLOSED"
    /\ trades[last.id].exit_reason = Some("MANUAL")
    /\ trades[last.id].closed_at # None
    /\ positionAmt[trades[last.id].pair] = 0
    /\ \E i \in 1..Len(last.reqs) : last.reqs[i].method = "DELETE"

\* ------------------------------------------------------ configuration updates
\* Values an operator sends to PUT /api/config for the margin mode and the
\* leverage
MarginModeChoices == {"ISOLATED"}
LeverageChoices   == {DefaultLeverage \div 2}

\* PUT /api/config with any subset of the six fields; the request body is kept
\* in the history
PutConfig(margin_mode, max_leverage, max_position_size, sl_percentage, tp_percentage, auto_execute_trades) ==
    /\ config' = Some(update_config(config, margin_mode, max_leverage, max_position_size,
                                    sl_percentage, tp_percentage, auto_execute_trades))
    /\ last' = [Idle("update_config") EXCEPT
                  !.args = << margin_mode, max_leverage, max_position_size, sl_percentage,
                              tp_percentage, auto_execute_trades >>]
    /\ UNCHANGED << exchangeVars, marketMessages, signals, trades, settingsAutoExecute,
                    listenerVars >>

NextConfig ==
    \/ \E margin_mode \in Optional(MarginModeChoices),
          max_leverage \in Optional(LeverageChoices),
          max_position_size \in Optional(PositionSizeChoices),
          sl_percentage \in Optional(SlChoices),
          tp_percentage \in Optional(TpChoices),
          auto_execute_trades \in Optional(AutoExecuteChoices) :
         PutConfig(margin_mode, max_leverage, max_position_size, sl_percentage,
                   tp_percentage, auto_execute_trades)
    \/ ResetConfig

SpecConfig == Init /\ [][NextConfig]_vars

\* C21: an update leaves in each of the six configuration fields the argument
\* of the request when one was provided and the value the field had before
\* (the default, for a row created by this very access) when none was; the
\* application keeps one configuration row, that of user 1, and nothing but
\* that row changes.
ConfigFields(c) ==
    << c.margin_mode, c.max_leverage, c.max_position_size, c.sl_percentage,
       c.tp_percentage, c.auto_execute_trades >>

C21_UpdateChangesProvidedFieldsOnly ==
    [][ last'.op = "update_config"
        => /\ config' # None
           /\ \A k \in 1..6 :
                ConfigFields(config'[1])[k]
                = (IF last'.args[k] # None THEN last'.args[k][1]
                   ELSE ConfigFields(get_config(config))[k])
           /\ UNCHANGED << exchangeVars, marketMessages, signals, trades,
                           settingsAutoExecute, listenerVars >> ]_vars

\* An update of the leverage alone on a row whose other fields are not the
\* defaults
C21_OneFieldOfChangedRow ==
    /\ last.op = "update_config"
    /\ last.args = << None, Some(DefaultLeverage \div 2), None, None, None, None >>
    /\ config # None
    /\ config[1].max_leverage = DefaultLeverage \div 2
    /\ config[1].margin_mode = "ISOLATED"
    /\ config[1].sl_percentage = 0
    /\ ~config[1].auto_execute_trades

\* ------------------------------------------------- sync: exit-reason inference
\* Percentages the stored signals were parsed under: the defaults, and a
\* negative stop-loss percentage (PUT /api/config checks no range), which puts
\* the stop loss beyond the take profit so that a price can pass both tests
ExitPercentages == { << DefaultSlBp, DefaultTpBp >>, << 0 - DefaultSlBp, DefaultTpBp >> }

SignalsUnder(sl_percentage, tp_percentage) ==
    << SignalRow(1, parse_message(SignalBTC, sl_percentage, tp_percentage)[1], SignalBTC,
                 "Unknown"),
       SignalRow(2, parse_message(SignalETH, sl_percentage, tp_percentage)[1], SignalETH,
                 "Unknown") >>

\* The database after PUT /api/config with the percentages and two
\* POST /api/signals/parse calls with auto_execute=false
InitExit ==
    /\ positionAmt = [s \in Symbols |-> 0]
    /\ exMarginType = [s \in Symbols |-> "CROSSED"]
    /\ restingOrders = << >>
    /\ \E p \in ExitPercentages :
         /\ config = Some(update_config(None, None, None, None, Some(p[1]), Some(p[2]),
                                        None))
         /\ signals = SignalsUnder(p[1], p[2])
    /\ marketMessages = << SignalBTC, SignalETH >>
    /\ trades = << >>
    /\ settingsAutoExecute = TRUE
    /\ processed_messages = {}
    /\ delivered = << >>
    /\ running = TRUE
    /\ last = Idle("init")

NextExit ==
    \/ \E signal_id \in 1..Len(signals) :
         /\ Len(trades) < MaxTrades
         /\ ExecuteSignal(signal_id)
    \/ SyncPositions
    \/ \E i \in 1..Len(restingOrders) : ExchangeFills(i)
    \/ \E symbol \in Symbols : ExchangeCloses(symbol)

SpecExit == InitExit /\ [][NextExit]_vars

\* C22: the exit reason a sync infers from the price p it obtained is, for a
\* LONG trade, SL_HIT when p <= SL, otherwise TP_HIT when p >= TP, otherwise
\* UNKNOWN, and for a SHORT trade SL_HIT when p >= SL, otherwise TP_HIT when
\* p <= TP, otherwise UNKNOWN: when both tests pass, the stop loss wins.
StatedReason(side, price, sl, tp) ==
    IF side = "LONG"
    THEN (IF price <= sl THEN "SL_HIT" ELSE IF price >= tp THEN "TP_HIT" ELSE "UNKNOWN")
    ELSE (IF price >= sl THEN "SL_HIT" ELSE IF price <= tp THEN "TP_HIT" ELSE "UNKNOWN")

ProtectiveRequests(reqs) == SelectSeq(reqs, IsProtective)

EntryRequests(reqs) == SelectSeq(reqs, LAMBDA r : IsOrder(r) /\ r.type = "LIMIT")

Shutdown ==
    /\ running
    /\ running' = FALSE
    /\ last' = Idle("shutdown")
    /\ UNCHANGED << exchangeVars, dbVars, settingsAutoExecute, processed_messages,
                    delivered >>

\* The listener's callback and the manual execution, until the app shuts down
NextLifespan ==
    \/ \E text \in Texts :
         /\ running
         /\ Len(marketMessages) < MaxMessages
         /\ Len(signals) < MaxSignals
         /\ Len(trades) < MaxTrades
         /\ HandleSignal(text)
    \/ \E signal_id \in 1..Len(signals) :
         /\ running
         /\ Len(trades) < MaxTrades
         /\ ExecuteSignal(signal_id)
    \/ Shutdown

SpecLifespan == Init /\ [][NextLifespan]_vars

\* C24: a step in which the exchange accepts the entry order of open_position
\* also sends the stop-loss request and then the take-profit request, in this
\* order and directly after the entry request, and its result carries both
\* protective results, whether the stop loss succeeded or not; the shutdown of
\* the app is a step of its own, which sends no request and leaves the
\* exchange and the database as they are, so that no shutdown comes between
\* the entry order and the protective orders.
C24_ProtectiveAttemptedBeforeReturn ==
    [][ /\ (last'.bin # None /\ EntryAccepted(last'.bin[1]))
           => LET reqs == last'.reqs
                  n    == Len(reqs)
              IN  /\ n >= 3
                  /\ IsOrder(reqs[n - 2]) /\ reqs[n - 2].type = "LIMIT"
                  /\ IsProtective(reqs[n - 1]) /\ reqs[n - 1].type = "STOP_MARKET"
                  /\ IsProtective(reqs[n]) /\ reqs[n].type = "TAKE_PROFIT_MARKET"
                  /\ last'.bin[1].sl_order # None
                  /\ last'.bin[1].tp_order # None
                  /\ running' = running
        /\ (running' # running)
           => /\ last'.reqs = << >>
              /\ UNCHANGED << exchangeVars, dbVars >> ]_vars

\* The listener auto-executed a signal, the stop loss failed and the take
\* profit was requested and placed all the same
C24_TakeProfitAfterFailedStopLoss ==
    /\ last.op = "handle_signal"
    /\ last.bin # None
    /\ EntryAccepted(last.bin[1])
    /\ ~last.bin[1].sl_order[1].success
    /\ last.bin[1].tp_order[1].success
    /\ last.reqs[Len(last.reqs)].type = "TAKE_PROFIT_MARKET"
    /\ running

\* C25: one call of the intake coordinator, with the orchestrator and the
\* gateway calls below it, puts at most one entry order, one stop-loss order
\* and one take-profit order on the wire and sends no state-changing request
\* twice; an order that failed was requested exactly once.
CountOf(reqs, type) == Len(SelectSeq(reqs, LAMBDA r : IsMutation(r) /\ r.type = type))

C25_EveryRequestSentOnce ==
    (last.op \in {"parse", "handle_signal"} /\ last.bin # None)
    => LET bin == last.bin[1]
       IN  /\ CountOf(last.reqs, "LIMIT") <= 1
           /\ CountOf(last.reqs, "STOP_MARKET") <= 1
           /\ CountOf(last.reqs, "TAKE_PROFIT_MARKET") <= 1
           /\ \A i, j \in 1..Len(last.reqs) :
                 (i # j /\ IsMutation(last.reqs[i])) => last.reqs[i] # last.reqs[j]
           /\ bin.entry_order # None => CountOf(last.reqs, "LIMIT") = 1
           /\ bin.sl_order # None => CountOf(last.reqs, "STOP_MARKET") = 1
           /\ bin.tp_order # None => CountOf(last.reqs, "TAKE_PROFIT_MARKET") = 1

\* The listener's callback auto-executed a signal and the exchange rejected the
\* entry order: the order went out once and no trade was stored
C25_FailedEntrySentOnce ==
    /\ last.op = "handle_signal"
    /\ last.bin # None
    /\ last.bin[1].entry_order # None
    /\ ~last.bin[1].entry_order[1].success
    /\ CountOf(last.reqs, "LIMIT") = 1
    /\ trades = << >>

\* ------------------------------------------------- margin type of a new position
\* The database after PUT /api/config with margin_mode ISOLATED and two
\* POST /api/signals/parse calls with auto_execute=false; the account's
\* symbols are on CROSSED margin, so that the margin-type request of an
\* execution asks for a change.
InitMargin ==
    /\ positionAmt = [s \in Symbols |-> 0]
    /\ exMarginType = [s \in Symbols |-> "CROSSED"]
    /\ restingOrders = << >>
    /\ \E margin_mode \in MarginModeChoices :
         config = Some(update_config(None, Some(margin_mode), None, None, None, None, None))
    /\ marketMessages = << SignalBTC, SignalETH >>
    /\ signals = StoredSignals
    /\ trades = << >>
    /\ settingsAutoExecute = TRUE
    /\ processed_messages = {}
    /\ delivered = << >>
    /\ running = TRUE
    /\ last = Idle("init")

NextMargin ==
    \/ \E signal_id \in 1..Len(signals) :
         /\ Len(trades) < MaxTrades
         /\ ExecuteSignal(signal_id)
    \/ \E trade_id \in 1..Len(trades) : ClosePosition(trade_id)
    \/ \E i \in 1..Len(restingOrders) : ExchangeFills(i)
    \/ \E symbol \in Symbols : ExchangeCloses(symbol)

SpecMargin == InitMargin /\ [][NextMargin]_vars

\* The margin-type request of the step, if the step sent one
MarginRequests(reqs) ==
    SelectSeq(reqs, LAMBDA r : r.method = "POST" /\ r.endpoint = "/fapi/v1/marginType")

\* The exchange rejected the margin-type request of the step for a reason
\* other than "already set" and "blocked by a position or an order": the
\* symbol had another margin type and neither a position nor an order, and it
\* has the margin type it had.
MarginRejectedHard ==
    /\ last'.op = "execute"
    /\ last'.bin # None
    /\ Len(MarginRequests(last'.reqs)) = 1
    /\ LET req == MarginRequests(last'.reqs)[1]
       IN  /\ exMarginType[req.symbol] # req.value
           /\ positionAmt[req.symbol] = 0
           /\ \A i \in 1..Len(restingOrders) : restingOrders[i].symbol # req.symbol
           /\ exMarginType'[req.symbol] # req.value

\* C26: when the exchange rejects the margin-type request with a code other
\* than "already set" and "blocked by an existing position or order",
\* open_position fails, its message is the exchange's, and no entry order is
\* placed.
C26_HardMarginRejectionFailsOpen ==
    [][ MarginRejectedHard
        => /\ ~last'.bin[1].success
           /\ last'.bin[1].entry_order = None
           /\ EntryRequests(last'.reqs) = << >>
           /\ UNCHANGED << positionAmt, restingOrders, trades >> ]_vars

\* ------------------------------------------------ listener: size of the seen set
\* The identifiers the callback has run for, as the history records them
Admitted == { delivered[k].id : k \in { n \in 1..Len(delivered) : delivered[n].ran } }

\* C27: after the listener has handled a message, whatever the message, the
\* set of seen identifiers holds at most SeenLimit (1000) identifiers.
C27_SeenSetBounded == Cardinality(processed_messages) <= SeenLimit

\* More identifiers have been admitted than the set may hold, and the set has
\* grown back to the limit after an eviction
C27_FullAgainAfterEviction ==
    /\ Cardinality(Admitted) > SeenLimit
    /\ Cardinality(processed_messages) = SeenLimit

\* The step admits identifier id and evicts: the set had SeenLimit identifiers
\* and id was not one of them
EvictingStep ==
    /\ Len(delivered') = Len(delivered) + 1
    /\ delivered'[Len(delivered')].ran
    /\ Cardinality(processed_messages \cup { delivered'[Len(delivered')].id }) > SeenLimit

\* The position in the history of the admission of identifier x that put x
\* into the set the step evicts from
LastAdmission(x) ==
    CHOOSE k \in 1..Len(delivered') :
       /\ delivered'[k].id = x /\ delivered'[k].ran
       /\ \A n \in 1..Len(delivered') :
             (delivered'[n].id = x /\ delivered'[n].ran) => n <= k

\* C28: an eviction keeps the SeenKeep (500) identifiers admitted last: every
\* identifier it keeps was admitted after every identifier it drops.
C28_EvictionKeepsMostRecent ==
    [][ EvictingStep
        => LET added == processed_messages \cup { delivered'[Len(delivered')].id }
           IN  /\ Cardinality(processed_messages') = SeenKeep
               /\ \A x \in processed_messages', y \in added \ processed_messages' :
                     LastAdmission(x) > LastAdmission(y) ]_vars

InitRace ==
    /\ Init
    /\ settingsAutoExecute = TRUE

\* The messages of the scenario: signals for one symbol
RaceTexts == { SignalBTC }

NextRace ==
    \/ \E text \in RaceTexts :
         /\ Len(marketMessages) < MaxMessages
         /\ Len(signals) < MaxSignals
         /\ HandleSignal(text)
    \/ \E signal_id \in 1..Len(signals) :
         /\ trades # << >>
         /\ Len(trades) < MaxTrades + 1
         /\ ExecuteSignal(signal_id)
    \/ \E i \in 1..Len(restingOrders) : ExchangeFills(i)
    \/ \E symbol \in Symbols : ExchangeCloses(symbol)

SpecRace == InitRace /\ [][NextRace]_vars

\* The symbol of the open_position call the step makes
CallSymbol ==
    IF last'.op = "execute" THEN signals'[last'.id].pair ELSE signals'[Len(signals')].pair

GuardRequest == Get("/fapi/v2/positionRisk", "")

\* The entry orders of a symbol among the orders that rest on the exchange
RestingFor(resting, symbol) == { i \in 1..Len(resting) : resting[i].symbol = symbol }

ConditionalEntries    == { (205 * USD) \div 100, (520 * USD) \div 100 }
ConditionalLevels     == { (195 * USD) \div 100, (210 * USD) \div 100, (490 * USD) \div 100 }
ConditionalQuantities == { 1, 10, 11 }

\* Steps 5 and 6 of open_position on their own: the call of place_stop_loss or
\* place_take_profit for an entry order that passed the minimum-notional
\* test of step 3.5 for the symbol.
PlaceProtective(type, symbol, side, entry_price, level, quantity, ok) ==
    /\ ~BelowMinNotional(quantity, entry_price, get_min_notional(symbol, TRUE))
    /\ LET r == IF type = "STOP_MARKET"
                THEN place_stop_loss(symbol, ProtectiveSide(side), level, Some(quantity), ok)
                ELSE place_take_profit(symbol, ProtectiveSide(side), level, Some(quantity),
                                       ok)
       IN  last' = [Idle(IF type = "STOP_MARKET" THEN "place_stop_loss"
                         ELSE "place_take_profit")
                    EXCEPT !.success = r.result.success, !.reqs = r.reqs]
    /\ UNCHANGED << exchangeVars, dbVars, settingsAutoExecute, listenerVars >>

NextConditional ==
    \E type \in {"STOP_MARKET", "TAKE_PROFIT_MARKET"}, symbol \in Symbols, side \in Sides,
       entry_price \in ConditionalEntries, level \in ConditionalLevels,
       quantity \in ConditionalQuantities, ok \in BOOLEAN :
         PlaceProtective(type, symbol, side, entry_price, level, quantity, ok)

SpecConditional == Init /\ [][NextConditional]_vars

\* C31: a stop-loss or take-profit request carries reduceOnly exactly when
\* its notional, the quantity times the rounded trigger price, is below the
\* minimum notional the exchange reports for the symbol.
C31_ReduceOnlyBelowExchangeMinimum ==
    \A i \in 1..Len(last.reqs) :
       IsProtective(last.reqs[i])
       => (last.reqs[i].reduceOnly
           <=> last.reqs[i].quantity * last.reqs[i].price
               < ExchangeMinNotional(last.reqs[i].symbol))

\* ------------------------------------------- gateway: precision of the filters
\* A stepSize / tickSize string of the exchange: the integer part and the
\* digits written after the point ("0.001" is StepSize(0, <<0, 0, 1>>), "1" is
\* StepSize(1, << >>), "0.10" is StepSize(0, <<1, 0>>)).
StepSize(int, frac) == [int |-> int, frac |-> frac]

\* Decimal(s).as_tuple().exponent: minus the number of digits after the point
DecimalExponent(step) == 0 - Len(step.frac)

\* "quantity_precision = abs(step_decimal.as_tuple().exponent)"
Precision(step) == Abs(DecimalExponent(step))

\* round(n / d, digits), counted in units of 10^-digits
RoundTo(n, d, digits) == RoundHalfEven(n * (10 ^ digits), d)

\* The filter strings the exchange reports, and the values n / d to quantize
StepStrings ==
    { StepSize(1, << >>), StepSize(0, <<1>>), StepSize(0, <<0, 0, 1>>),
      StepSize(0, <<1, 0>>), StepSize(0, <<5>>) }
Numerators   == 1..12
Denominators == {3, 7, 8}

\* calculate_quantity (LOT_SIZE stepSize) and place_limit_order, place_stop_loss,
\* place_take_profit (PRICE_FILTER tickSize) quantize a value in the same way.
Quantize(filter, step, n, d) ==
    /\ last' = [Idle(filter) EXCEPT
                  !.args = << step, n, d, Precision(step), RoundTo(n, d, Precision(step)) >>]
    /\ UNCHANGED << exchangeVars, dbVars, settingsAutoExecute, listenerVars >>

NextPrecision ==
    \E filter \in {"LOT_SIZE", "PRICE_FILTER"}, step \in StepStrings, n \in Numerators,
       d \in Denominators :
         Quantize(filter, step, n, d)

SpecPrecision == Init /\ [][NextPrecision]_vars

\* The digits after the point read as a number
RECURSIVE FracValue(_)
FracValue(frac) ==
    IF frac = << >> THEN 0
    ELSE FracValue(SubSeq(frac, 1, Len(frac) - 1)) * 10 + frac[Len(frac)]

\* The step itself, counted in units of 10^-Len(step.frac)
StepUnits(step) == step.int * (10 ^ Len(step.frac)) + FracValue(step.frac)

\* C32: the number of digits used is 0 for the step "1" and 3 for the step
\* "0.001", and the quantized value is a multiple of the step, for every
\* filter string and every value.
C32_QuantizedIsMultipleOfStep ==
    last.op \in {"LOT_SIZE", "PRICE_FILTER"}
    => LET step      == last.args[1]
           digits    == last.args[4]
           quantized == last.args[5]
       IN  /\ step = StepSize(1, << >>) => digits = 0
           /\ step = StepSize(0, <<0, 0, 1>>) => digits = 3
           /\ quantized % StepUnits(step) = 0

\* ------------------------------------------------ failed position queries
\* C33: a sync whose position query failed modifies no trade.
C33_FailedQuerySyncChangesNothing ==
    [][ (last'.op = "sync" /\ ~last'.posOk) => trades' = trades ]_vars

\* The arguments execute_trade_from_signal passes to open_position for a
\* stored signal under the configuration in force
ArgsOf(signal) ==
    LET c == get_config(config)
    IN  OpenArgs(signal.pair, signal.setup_type, c.max_position_size, c.max_leverage,
                 c.margin_mode, signal.entry, signal.stop_loss, signal.take_profit)

\* C34: in every state, an open_position call for a stored signal whose guard
\* query fails returns a failure and has sent no request that changes the
\* leverage or the margin type or places an order.
C34_FailedGuardQueryFailsOpen ==
    \A i \in 1..Len(signals) :
       \A r \in OpenFromGuard(ExchangeNow, ArgsOf(signals[i]), FALSE) :
          /\ ~r.success
          /\ \A k \in 1..Len(r.reqs) : ~IsMutation(r.reqs[k])

\* -------------------------------------------------- trades of one symbol
NonTerminal(trade) == trade.status \in {"PENDING", "OPEN"}

\* C35: at most one trade of a user and a symbol is PENDING or OPEN.
C35_OneLiveTradePerSymbol ==
    \A i, j \in 1..Len(trades) :
       (/\ i < j
        /\ trades[i].user_id = trades[j].user_id
        /\ trades[i].pair = trades[j].pair
        /\ NonTerminal(trades[i]))
       => ~NonTerminal(trades[j])

\* C36: a trade is created OPEN with opened_at set only when the exchange
\* reported its entry order FILLED.
C36_OpenOnlyWhenFilled ==
    (OpenCalled /\ last.bin[1].success /\ last.success)
    => LET trade == trades[Len(trades)]
       IN  (trade.status = "OPEN" /\ trade.opened_at # None)
           => last.bin[1].entry_order[1].status = Some("FILLED")

\* ------------------------------------------------ leverage of a new trade
\* The leverage a POST /fapi/v1/leverage request asks the exchange to set
SentLeverage(r) ==
    CHOOSE l \in 1..(ExchangeMaxLeverage("BTCUSDT") + DefaultLeverage) : ToString(l) = r.value

\* C37: when an execution stores a trade, the leverage recorded on the trade
\* and the leverage the entry quantity was derived from are the leverage the
\* call has set on the exchange for the symbol.
C37_TradeLeverageIsExchangeLeverage ==
    [][ (last'.op = "execute" /\ last'.bin # None /\ last'.success)
        => LET trade == trades'[Len(trades')]
               c     == get_config(config)
           IN  \A i \in 1..Len(last'.reqs) :
                  last'.reqs[i].endpoint = "/fapi/v1/leverage"
                  => /\ trade.leverage = SentLeverage(last'.reqs[i])
                     /\ EntryRequests(last'.reqs)[1].quantity
                        = RoundHalfEven(c.max_position_size * SentLeverage(last'.reqs[i]),
                                        signals[last'.id].entry) ]_vars

\* ------------------------------------------------ pending trades under sync
\* The trading of SpecExit with POST /api/trades/sync called again and again
SpecSyncFair == InitExit /\ [][NextExit]_vars /\ WF_vars(SyncPositions)

\* C38: a PENDING trade whose entry order has left the book (filled, or
\* filled and closed again) leaves PENDING.
C38_PendingTradeLeavesPending ==
    \A i \in 1..MaxTrades :
       (/\ Len(trades) >= i
        /\ trades[i].status = "PENDING"
        /\ RestingFor(restingOrders, trades[i].pair) = {})
       ~> (Len(trades) >= i /\ trades[i].status # "PENDING")

\* C39: a sync that directly follows a sync, with the positions on the
\* exchange as they were, changes no trade; and no sync changes a CLOSED trade.
C39_SecondSyncChangesNothing ==
    [][ /\ (last.op = "sync" /\ last'.op = "sync") => trades' = trades
        /\ last'.op = "sync"
           => \A i \in 1..Len(trades) :
                 trades[i].status = "CLOSED" => trades'[i] = trades[i] ]_vars

\* When the position query of both runs is answered, the second run changes nothing
SecondAnsweredSyncChangesNothing ==
    [][ (last.op = "sync" /\ last'.op = "sync" /\ last.posOk /\ last'.posOk)
        => trades' = trades ]_vars

\* ---------------------------------------------------------------------------
\* Pair extraction at character level (telegram_parser.py 32, 103-117).
\* A message is a sequence of one-character strings.
\* ---------------------------------------------------------------------------

\* str.upper() on the characters the messages below contain.
Upper(c) ==
    CASE c = "b" -> "B"
      [] c = "t" -> "T"
      [] c = "c" -> "C"
      [] c = "u" -> "U"
      [] c = "s" -> "S"
      [] c = "d" -> "D"
      [] c = "p" -> "P"
      [] OTHER  -> c

UpperText(message) == [ i \in 1..Len(message) |-> Upper(message[i]) ]

\* The character class [A-Z0-9] of PAIR_PATTERN.
AlphaNumeric ==
    { "A", "B", "C", "D", "E", "F", "G", "H", "I", "J", "K", "L", "M",
      "N", "O", "P", "Q", "R", "S", "T", "U", "V", "W", "X", "Y", "Z",
      "0", "1", "2", "3", "4", "5", "6", "7", "8", "9" }

\* The alternation (?:USDT|BUSD|BTC|ETH) of PAIR_PATTERN.
QuoteSuffixes ==
    { << "U", "S", "D", "T" >>, << "B", "U", "S", "D" >>,
      << "B", "T", "C" >>, << "E", "T", "H" >> }

StartsAt(text, p, word) ==
    /\ p + Len(word) - 1 <= Len(text)
    /\ SubSeq(text, p, p + Len(word) - 1) = word

EndsWith(text, word) ==
    /\ Len(text) >= Len(word)
    /\ SubSeq(text, Len(text) - Len(word) + 1, Len(text)) = word

\* Lengths k of a run [A-Z0-9]+ starting at p that a quote follows.
RunLengths(text, p) ==
    { k \in 1..(Len(text) - p + 1) :
        /\ \A j \in p..(p + k - 1) : text[j] \in AlphaNumeric
        /\ \E q \in QuoteSuffixes : StartsAt(text, p + k, q) }

\* One optional literal: the position after it when it is there (greedy).
SkipOptional(text, e, c) == IF e <= Len(text) /\ text[e] = c THEN e + 1 ELSE e

\* group(1) of PAIR_PATTERN matched at position p: the longest run the
\* quote follows (greedy +, backtracking), the quote, then "\.?" and "P?".
MatchAt(text, p) ==
    LET runs == RunLengths(text, p)
    IN  IF runs = {} THEN None
        ELSE LET k == CHOOSE x \in runs : \A y \in runs : y <= x
                 q == CHOOSE w \in QuoteSuffixes : StartsAt(text, p + k, w)
                 e == SkipOptional(text, SkipOptional(text, p + k + Len(q), "."), "P")
             IN  Some(SubSeq(text, p, e - 1))

\* re.search: the leftmost position at which the group matches.
PAIR_PATTERN(text) ==
    LET starts == { p \in 1..Len(text) : RunLengths(text, p) # {} }
    IN  IF starts = {} THEN None
        ELSE MatchAt(text, CHOOSE p \in starts : \A r \in starts : p <= r)

\* The cleanup of the matched group (lines 109-115).
CleanPair(pair) ==
    IF EndsWith(pair, << ".", "P" >>) THEN SubSeq(pair, 1, Len(pair) - 2)
    ELSE IF EndsWith(pair, << "P" >>) /\ ~EndsWith(pair, << "U", "S", "D", "T" >>)
         THEN SubSeq(pair, 1, Len(pair) - 1)
    ELSE pair

\* _extract_pair on a message given by its characters.
ExtractedPair(message) ==
    LET match == PAIR_PATTERN(UpperText(message))
    IN  IF match # None THEN Some(CleanPair(match[1])) ELSE None

\* Messages: an optional hashtag, a base asset, a quote asset (or none), what
\* follows the pair directly, and the rest of the line.
PairMessages ==
    LET PairHashes == { << >>, << "#" >> }
        PairBases  == { << "B", "T", "C" >>, << "P", "E", "P", "E" >>, << "b", "t", "c" >> }
        PairQuotes == QuoteSuffixes \cup { << "u", "s", "d", "t" >>, << >> }
        PairTails  == { << >>, << "." >>, << "P" >>, << ".", "P" >>, << " ", "P" >> }
        PairRests  == { << >>, << " ", "L", "O", "N", "G" >> }
    IN  { h \o b \o q \o t \o r :
            h \in PairHashes, b \in PairBases, q \in PairQuotes, t \in PairTails, r \in PairRests }

ExtractPair(message) ==
    /\ last' = [Idle("_extract_pair") EXCEPT !.args = << message, ExtractedPair(message) >>]
    /\ UNCHANGED << exchangeVars, dbVars, settingsAutoExecute, listenerVars >>

NextPair == \E message \in PairMessages : ExtractPair(message)

SpecPair == Init /\ [][NextPair]_vars

\* C40: whenever pair extraction succeeds, the returned pair ends with one
\* of the quote suffixes USDT, BUSD, BTC, ETH: the perpetual marker (".P" or
\* "P") and a matched trailing "." are gone from it.
C40_ExtractedPairEndsWithQuote ==
    (last.op = "_extract_pair" /\ last.args[2] # None)
       => \E q \in QuoteSuffixes : EndsWith(last.args[2][1], q)

\* The perpetual marker itself is always removed: a returned pair ends with
\* a quote suffix or with a quote suffix and one ".".
ExtractedPairEndsWithQuoteOrDot ==
    (last.op = "_extract_pair" /\ last.args[2] # None)
       => \E q \in QuoteSuffixes :
             \/ EndsWith(last.args[2][1], q)
             \/ EndsWith(last.args[2][1], q \o << "." >>)

====
